---------------------------- MODULE Spec2Model ----------------------------
(***************************************************************************)
(* A model of the C analysis pipeline of this repository:                  *)
(*   - the code generator (src/src/utils/codeGenerator.js): lowering of an *)
(*     AST to three-address code, and the peephole optimizer;              *)
(*   - the semantic analyzer (src/src/utils/semanticAnalyzer.js);          *)
(*   - the analyzer UI component that sequences the stages                 *)
(*     (src/unnamed/part_000).                                             *)
(* AST nodes have the shape the parser (src/unnamed/part_001) builds.      *)
(***************************************************************************)
EXTENDS Integers, Sequences, FiniteSets, TLC

(***************************************************************************)
(* Bounds of the model.                                                    *)
(***************************************************************************)
\* numeric literals of the input programs are "0" .. ToStr(MaxLit)
MaxLit == 2
\* nesting depth of the control-flow statements of the input programs
MaxDepth == 2
\* number of top-level function declarations of an input program
MaxFuncs == 2
\* number of arguments of the calls of the input programs: 0 .. MaxArgs
MaxArgs == 2

(***************************************************************************)
(* JavaScript values.  Operands of TAC instructions are strings (token     *)
(* values, temporaries, labels) or null.                                   *)
(***************************************************************************)
Null == "<null>"

\* an AST position holding null (parser: `let initializer = null`, `body = null`)
NullNode == [type |-> "null"]

\* TLC evaluates the arguments of an operator lazily.  A traversal step asks
\* this of the state it is handed, which evaluates that state before the step
\* starts; it is TRUE of every state record.
Settled(st) == DOMAIN st /= {}

\* An exception in flight.  The state records of the two stages carry the
\* message of the exception thrown, Null while none is; once one is thrown
\* no later statement of the try block runs, so every step leaves such a
\* state as it is.
Thrown(st) == st.thrown /= Null

\* throw new TypeError(message)
throw(st, message) == IF Thrown(st) THEN st ELSE [st EXCEPT !.thrown = message]

\* reading a property of null: the message of the TypeError
CannotRead(property) == "Cannot read properties of null (reading '" \o property \o "')"

Digits == <<"0", "1", "2", "3", "4", "5", "6", "7", "8", "9">>

\* Number.prototype.toString / template-literal formatting of an integer
RECURSIVE ToStr(_)
ToStr(n) ==
  IF n < 0 THEN "-" \o ToStr(-n)
  ELSE IF n < 10 THEN Digits[n + 1]
  ELSE ToStr(n \div 10) \o Digits[(n % 10) + 1]

\* the largest magnitude one arithmetic operation on two literals can produce
NumRange == (MaxLit + 1) * (MaxLit + 1) + 1

\* the strings of the model that JavaScript's Number() reads as a number
NumStrs == { ToStr(n) : n \in -NumRange .. NumRange }

\* the number a numeric string denotes
NumOf(s) == CHOOSE n \in -NumRange .. NumRange : ToStr(n) = s

\* isNaN(x): Number(null) is 0, so null is not NaN; identifiers, temporaries
\* and "NaN" are
isNaN(s) == s /= Null /\ s \notin NumStrs

\* parseFloat(x): parseFloat(null) is NaN
parseFloat(s) ==
  IF s \in NumStrs THEN [nan |-> FALSE, v |-> NumOf(s)] ELSE [nan |-> TRUE, v |-> 0]

\* (a op b).toString() on parseFloat results
numToString(r) == IF r.nan THEN "NaN" ELSE ToStr(r.v)

\* `x || null` for a string or null x: the empty string is falsy
orNull(v) == IF v = "" THEN Null ELSE v

\* `n || null` for a number n, formatted as the operand it becomes: 0 is falsy
numOrNull(n) == IF n = 0 THEN Null ELSE ToStr(n)

(***************************************************************************)
(* AST nodes, as the parser builds them.                                   *)
(***************************************************************************)
Identifier(name) == [type |-> "Identifier", name |-> name]

Literal(value, valueType) ==
  [type |-> "Literal", value |-> value, valueType |-> valueType]

NumLit(n) == Literal(ToStr(n), "number")

BinaryExpression(op, l, r) ==
  [type |-> "BinaryExpression", operator |-> op, left |-> l, right |-> r]

UnaryExpression(op, arg) ==
  [type |-> "UnaryExpression", operator |-> op, argument |-> arg, prefix |-> TRUE]

AssignmentExpression(l, r) ==
  [type |-> "AssignmentExpression", operator |-> "=", left |-> l, right |-> r]

CallExpression(name, args) ==
  [type |-> "CallExpression", callee |-> Identifier(name), arguments |-> args]

ExpressionStatement(e) == [type |-> "ExpressionStatement", expression |-> e]

ReturnStatement(arg) == [type |-> "ReturnStatement", argument |-> arg]

BlockStatement(body) == [type |-> "BlockStatement", body |-> body]

IfStatement(test, cons, alt) ==
  [type |-> "IfStatement", test |-> test, consequent |-> cons, alternate |-> alt]

WhileStatement(test, body) ==
  [type |-> "WhileStatement", test |-> test, body |-> body]

ForStatement(init, test, update, body) ==
  [type |-> "ForStatement", init |-> init, test |-> test, update |-> update,
   body |-> body]

\* the parser has no production for break and continue; the AST variants
\* exist for the code generator, whose input is any AST
BreakStatement == [type |-> "BreakStatement"]

ContinueStatement == [type |-> "ContinueStatement"]

DeclarationSpecifiers(names) ==
  [type |-> "DeclarationSpecifiers",
   specifiers |-> [i \in 1 .. Len(names) |-> [type |-> "TypeSpecifier", name |-> names[i]]]]

\* parseVariableDeclarator: `initializer` is null when there is no '='
VariableDeclarator(name, isArray, initializer) ==
  [type |-> "VariableDeclarator", id |-> Identifier(name), isArray |-> isArray,
   initializer |-> initializer]

\* parseVariableDeclaration sets isPointer on the declarator after a '*'
PointerDeclarator(name, isArray, initializer) ==
  [type |-> "VariableDeclarator", id |-> Identifier(name), isArray |-> isArray,
   initializer |-> initializer, isPointer |-> TRUE]

VariableDeclaration(typeNames, declarators) ==
  [type |-> "VariableDeclaration", declarations |-> declarators,
   typeSpecifiers |-> DeclarationSpecifiers(typeNames)]

Parameter(typeNames, name, isArray, isPointer) ==
  [type |-> "Parameter", paramType |-> DeclarationSpecifiers(typeNames),
   name |-> name, isArray |-> isArray, isPointer |-> isPointer]

\* parseFunctionDeclaration: `body` is null for a forward declaration
FunctionDeclaration(typeNames, isPointerReturn, name, params, body) ==
  [type |-> "FunctionDeclaration", id |-> Identifier(name),
   returnType |-> DeclarationSpecifiers(typeNames),
   isPointerReturn |-> isPointerReturn, params |-> params, body |-> body]

Program(body) == [type |-> "Program", body |-> body]

(***************************************************************************)
(* Code generator: src/src/utils/codeGenerator.js.                         *)
(* The generation context is threaded through the traversal as a record:   *)
(*   code            intermediateCode                                      *)
(*   tempVarCounter, labelCounter                                          *)
(*   loopStack       context.loopStack, frames {startLabel, continueLabel, *)
(*                   endLabel}, innermost last                             *)
(*   errors          the codegen diagnostics                               *)
(*   stringCounter, stringLiterals   context.stringCounter/.stringLiterals *)
(*   jumps, frames   history: the index and kind of each GOTO emitted for  *)
(*                   a break or continue, and every loop frame pushed      *)
(*   thrown          the exception in flight, Null when there is none      *)
(***************************************************************************)
NewContext ==
  [code |-> <<>>, tempVarCounter |-> 0, labelCounter |-> 0, loopStack |-> <<>>,
   errors |-> <<>>, stringCounter |-> 0, stringLiterals |-> <<>>,
   jumps |-> <<>>, frames |-> <<>>, thrown |-> Null]

\* generateTempVar: `t${tempVarCounter++}`
generateTempVar(st) ==
  [val |-> "t" \o ToStr(st.tempVarCounter),
   st |-> IF Thrown(st) THEN st ELSE [st EXCEPT !.tempVarCounter = @ + 1]]

\* a label generator that reads the counter without advancing it
generateLabelKeepingCounter(prefix, st) ==
  [val |-> prefix \o ToStr(st.labelCounter), st |-> st]

\* generateLabel: `${prefix}${labelCounter++}`
generateLabel(prefix, st) ==
  [val |-> prefix \o ToStr(st.labelCounter),
   st |-> IF Thrown(st) THEN st ELSE [st EXCEPT !.labelCounter = @ + 1]]

emit(st, op, arg1, arg2, result) ==
  IF Thrown(st) THEN st
  ELSE [st EXCEPT !.code = Append(@,
          [operation |-> op, arg1 |-> orNull(arg1), arg2 |-> orNull(arg2),
           result |-> orNull(result), label |-> Null, lineNumber |-> Len(st.code)])]

emitLabel(st, label) ==
  IF Thrown(st) THEN st
  ELSE [st EXCEPT !.code = Append(@,
          [operation |-> "LABEL", arg1 |-> Null, arg2 |-> Null, result |-> Null,
           label |-> label, lineNumber |-> Len(st.code)])]

\* emit(op, value, null, result) where `value` is the operand a call of
\* generateExpression returned and the context is the one it left
emitResult(r, op, result) == emit(r.st, op, r.val, Null, result)

pushError(st, message) ==
  IF Thrown(st) THEN st
  ELSE [st EXCEPT !.errors = Append(@, [message |-> message, type |-> "codegen"])]

\* the TAC operation of a binary operator; Null for the default branch
BinaryOperation(op) ==
  CASE op = "+" -> "ADD" [] op = "-" -> "SUB" [] op = "*" -> "MUL"
    [] op = "/" -> "DIV" [] op = "%" -> "MOD" [] op = "==" -> "EQ"
    [] op = "!=" -> "NE" [] op = "<" -> "LT" [] op = ">" -> "GT"
    [] op = "<=" -> "LE" [] op = ">=" -> "GE" [] op = "&&" -> "AND"
    [] op = "||" -> "OR" [] OTHER -> Null

\* node.left.name / node.callee?.name: undefined when the node has no name;
\* emit turns undefined into null
NameOf(node) == IF "name" \in DOMAIN node THEN node.name ELSE Null

RECURSIVE generateExpression(_, _)
RECURSIVE generateArguments(_, _, _)
RECURSIVE generateStatement(_, _)
RECURSIVE generateStatements(_, _)
RECURSIVE generateVariableDeclaration(_, _)
RECURSIVE generateDeclarators(_, _)

generateBinary(node, st) ==
  LET l == generateExpression(node.left, st)
      r == generateExpression(node.right, l.st)
      t == generateTempVar(r.st)
      operation == BinaryOperation(node.operator)
  IN IF operation = Null
     THEN [val |-> Null,
           st |-> pushError(t.st, "Unsupported binary operator: " \o node.operator)]
     ELSE [val |-> t.val, st |-> emit(t.st, operation, l.val, r.val, t.val)]

generateUnary(node, st) ==
  LET a == generateExpression(node.argument, st)
      t == generateTempVar(a.st)
      operand == a.val
      op == node.operator
  IN CASE op = "-" -> [val |-> t.val, st |-> emit(t.st, "NEG", operand, Null, t.val)]
       [] op = "!" -> [val |-> t.val, st |-> emit(t.st, "NOT", operand, Null, t.val)]
       [] op = "++" ->
            IF node.prefix
            THEN [val |-> operand, st |-> emit(t.st, "ADD", operand, "1", operand)]
            ELSE [val |-> t.val,
                  st |-> emit(emit(t.st, "ASSIGN", operand, Null, t.val),
                              "ADD", operand, "1", operand)]
       [] op = "--" ->
            IF node.prefix
            THEN [val |-> operand, st |-> emit(t.st, "SUB", operand, "1", operand)]
            ELSE [val |-> t.val,
                  st |-> emit(emit(t.st, "ASSIGN", operand, Null, t.val),
                              "SUB", operand, "1", operand)]
       [] op = "&" -> [val |-> t.val, st |-> emit(t.st, "ADDR", operand, Null, t.val)]
       [] op = "*" -> [val |-> t.val, st |-> emit(t.st, "DEREF", operand, Null, t.val)]
       [] OTHER ->
            [val |-> Null,
             st |-> pushError(t.st, "Unsupported unary operator: " \o op)]

\* the forEach over node.arguments: PARAM per argument, in order
generateArguments(args, index, st) ==
  IF index > Len(args) THEN st
  ELSE LET a == generateExpression(args[index], st)
       IN generateArguments(args, index + 1,
            emit(a.st, "PARAM", a.val, Null, "param" \o ToStr(index - 1)))

generateCall(node, st) ==
  LET funcName == NameOf(node.callee)
      afterArgs == generateArguments(node.arguments, 1, st)
      t == generateTempVar(afterArgs)
  IN [val |-> t.val,
      st |-> emit(t.st, "CALL", funcName, numOrNull(Len(node.arguments)), t.val)]

generateExpression(node, st) ==
  CASE ~Settled(st) \/ Thrown(st) -> [val |-> Null, st |-> st]
    [] node.type = "Identifier" -> [val |-> node.name, st |-> st]
    [] node.type = "Literal" ->
         IF node.valueType = "string"
         THEN LET stringLabel == "str" \o ToStr(st.stringCounter)
              IN [val |-> stringLabel,
                  st |-> [st EXCEPT !.stringCounter = @ + 1,
                                    !.stringLiterals = Append(@, <<stringLabel, node.value>>)]]
         ELSE [val |-> node.value, st |-> st]
    [] node.type = "BinaryExpression" -> generateBinary(node, st)
    [] node.type = "UnaryExpression" -> generateUnary(node, st)
    [] node.type = "AssignmentExpression" ->
         [val |-> NameOf(node.left),
          st |-> emitResult(generateExpression(node.right, st), "ASSIGN",
                            NameOf(node.left))]
    [] node.type = "CallExpression" -> generateCall(node, st)
    [] OTHER -> [val |-> Null, st |-> st]

\* context.loopStack.push({startLabel, continueLabel, endLabel})
pushLoop(st, frame) ==
  IF Thrown(st) THEN st
  ELSE [st EXCEPT !.loopStack = Append(@, frame), !.frames = Append(@, frame)]

\* a loop that leaves its frame on the stack
leaveLoop(st) == st

\* context.loopStack.pop()
popLoop(st) ==
  IF Thrown(st) THEN st ELSE [st EXCEPT !.loopStack = SubSeq(@, 1, Len(@) - 1)]

\* context.loopStack[context.loopStack.length - 1]; NullNode for undefined
currentLoop(st) ==
  IF Len(st.loopStack) = 0 THEN NullNode ELSE st.loopStack[Len(st.loopStack)]

\* a GOTO emitted for a break or continue statement, noted in the history
emitJump(st, kind, target) ==
  [emit(st, "GOTO", Null, Null, target) EXCEPT
     !.jumps = Append(@, [index |-> Len(st.code) + 1, kind |-> kind])]

\* the IfStatement case after `condition` is generated
generateIfBranches(node, st, c) ==
  LET elseLabel == generateLabel("ELSE", c.st)
      endLabel == generateLabel("END_IF", elseLabel.st)
      s1 == emit(endLabel.st, "IF_FALSE", c.val, Null, elseLabel.val)
      s2 == generateStatement(node.consequent, s1)
  IN IF ~Settled(s2) THEN st
     ELSE IF node.alternate /= NullNode
     THEN LET s3 == emitLabel(emit(s2, "GOTO", Null, Null, endLabel.val), elseLabel.val)
              s4 == generateStatement(node.alternate, s3)
          IN IF Settled(s4) THEN emitLabel(s4, endLabel.val) ELSE st
     ELSE emitLabel(s2, elseLabel.val)

generateIf(node, st) ==
  generateIfBranches(node, st, generateExpression(node.test, st))

\* the WhileStatement case after the IF_FALSE of the condition: the body,
\* the GOTO back, the end label and the pop
generateWhileBody(node, st, frame, s3) ==
  LET s4 == generateStatement(node.body, s3)
      s5 == emitLabel(emit(s4, "GOTO", Null, Null, frame.startLabel), frame.endLabel)
  IN IF Settled(s4) THEN popLoop(s5) ELSE st

generateWhile(node, st) ==
  LET startLabel == generateLabel("WHILE_START", st)
      endLabel == generateLabel("WHILE_END", startLabel.st)
      frame == [startLabel |-> startLabel.val, continueLabel |-> startLabel.val,
                endLabel |-> endLabel.val]
      s2 == emitLabel(pushLoop(endLabel.st, frame), startLabel.val)
  IN generateWhileBody(node, st, frame,
       emitResult(generateExpression(node.test, s2), "IF_FALSE", endLabel.val))

\* if (node.init) { ... }
generateForInit(node, st) ==
  IF node.init = NullNode THEN st
  ELSE IF node.init.type = "VariableDeclaration"
       THEN generateVariableDeclaration(node.init, st)
       ELSE generateExpression(node.init, st).st

\* a test that leaves the loop through its start label
generateForTestToStart(node, frame, st) ==
  IF node.test = NullNode THEN st
  ELSE emitResult(generateExpression(node.test, st), "IF_FALSE", frame.startLabel)

\* if (node.test) { ... }
generateForTest(node, frame, st) ==
  IF node.test = NullNode THEN st
  ELSE emitResult(generateExpression(node.test, st), "IF_FALSE", frame.endLabel)

\* if (node.update) { ... }
generateForUpdate(node, st) ==
  IF node.update = NullNode THEN st
  ELSE generateExpression(node.update, st).st

\* the ForStatement case after the test: the body, the continue label, the
\* update, the GOTO back, the end label and the pop
generateForBody(node, st, frame, s4) ==
  LET s5 == generateStatement(node.body, s4)
      s6 == emitLabel(s5, frame.continueLabel)
  IN IF Settled(s5)
     THEN popLoop(emitLabel(emit(generateForUpdate(node, s6),
                                 "GOTO", Null, Null, frame.startLabel),
                            frame.endLabel))
     ELSE st

generateFor(node, st) ==
  LET startLabel == generateLabel("FOR_START", st)
      continueLabel == generateLabel("FOR_CONTINUE", startLabel.st)
      endLabel == generateLabel("FOR_END", continueLabel.st)
      frame == [startLabel |-> startLabel.val, continueLabel |-> continueLabel.val,
                endLabel |-> endLabel.val]
      s3 == emitLabel(generateForInit(node, pushLoop(endLabel.st, frame)),
                      startLabel.val)
  IN generateForBody(node, st, frame, generateForTest(node, frame, s3))

\* a break that leaves the outermost loop instead of the innermost
breakTargetOutermost(st) == st.loopStack[1].endLabel

\* the target of the GOTO of a break statement
breakTarget(st) == currentLoop(st).endLabel

\* the target of the GOTO of a continue statement
continueTarget(st) == currentLoop(st).continueLabel

\* the forEach of a BlockStatement's body
generateStatements(stmts, st) ==
  IF ~Settled(st) \/ Thrown(st) \/ Len(stmts) = 0 THEN st
  ELSE IF Head(stmts) = NullNode THEN throw(st, CannotRead("type"))
  ELSE generateStatements(Tail(stmts),
         IF Head(stmts).type = "VariableDeclaration"
         THEN generateVariableDeclaration(Head(stmts), st)
         ELSE generateStatement(Head(stmts), st))

generateStatement(node, st) ==
  CASE ~Settled(st) \/ Thrown(st) \/ node = NullNode -> st
    [] node.type = "ExpressionStatement" ->
         IF node.expression /= NullNode
         THEN generateExpression(node.expression, st).st
         ELSE st
    [] node.type = "ReturnStatement" ->
         IF node.argument /= NullNode
         THEN emitResult(generateExpression(node.argument, st), "RETURN", Null)
         ELSE emit(st, "RETURN", Null, Null, Null)
    [] node.type = "IfStatement" -> generateIf(node, st)
    [] node.type = "WhileStatement" -> generateWhile(node, st)
    [] node.type = "ForStatement" -> generateFor(node, st)
    [] node.type = "BlockStatement" -> generateStatements(node.body, st)
    [] node.type = "BreakStatement" ->
         IF currentLoop(st) /= NullNode
         THEN emitJump(st, "break", breakTarget(st))
         ELSE pushError(st, "Break statement outside of loop")
    [] node.type = "ContinueStatement" ->
         IF currentLoop(st) /= NullNode
         THEN emitJump(st, "continue", continueTarget(st))
         ELSE pushError(st, "Continue statement outside of loop")
    [] OTHER -> st

\* the forEach of generateVariableDeclaration over node.declarations;
\* `declarator.id?.name` throws when the declarator itself is null
generateDeclarator(declarator, st) ==
  LET varName == NameOf(declarator.id)
      s1 == emit(st, "DECLARE", varName, Null, Null)
  IN IF declarator = NullNode THEN throw(st, CannotRead("id"))
     ELSE IF varName = Null THEN st
     ELSE IF declarator.initializer /= NullNode
     THEN emitResult(generateExpression(declarator.initializer, s1), "ASSIGN", varName)
     ELSE s1

generateDeclarators(decls, st) ==
  IF Thrown(st) \/ Len(decls) = 0 THEN st
  ELSE generateDeclarators(Tail(decls), generateDeclarator(Head(decls), st))

generateVariableDeclaration(node, st) == generateDeclarators(node.declarations, st)

RECURSIVE generateParamDecls(_, _)
generateParamDecls(params, st) ==
  IF Thrown(st) \/ Len(params) = 0 THEN st
  ELSE IF Head(params) = NullNode THEN throw(st, CannotRead("name"))
  ELSE generateParamDecls(Tail(params), emit(st, "PARAM_DECL", Head(params).name, Null, Null))

\* if (node.body) { generateStatement(node.body); }
generateFunctionBody(node, st) ==
  IF node.body /= NullNode THEN generateStatement(node.body, st) ELSE st

generateFunctionDeclaration(node, st) ==
  LET funcName == NameOf(node.id)
      s1 == emit(emitLabel(st, funcName), "FUNCTION_START", funcName, Null, Null)
      s2 == generateParamDecls(node.params, s1)
  IN IF funcName = Null THEN st
     ELSE emit(generateFunctionBody(node, s2), "FUNCTION_END", funcName, Null, Null)

\* the forEach of generateCode over the Program's body
RECURSIVE generateTopLevel(_, _)
generateTopLevel(stmts, st) ==
  IF ~Settled(st) \/ Thrown(st) \/ Len(stmts) = 0 THEN st
  ELSE IF Head(stmts) = NullNode THEN throw(st, CannotRead("type"))
  ELSE generateTopLevel(Tail(stmts),
         CASE Head(stmts).type = "FunctionDeclaration" ->
                generateFunctionDeclaration(Head(stmts), st)
           [] Head(stmts).type = "VariableDeclaration" ->
                generateVariableDeclaration(Head(stmts), st)
           [] OTHER -> generateStatement(Head(stmts), st))

generateCode(node, st) ==
  IF node = NullNode THEN st
  ELSE IF node.type = "Program" THEN generateTopLevel(node.body, st)
  ELSE generateStatement(node, st)

\* JSON.stringify(ast).includes("stdio.h"): an Include node of that header
MentionsStdio(node) ==
  /\ node /= NullNode
  /\ node.type = "Program"
  /\ \E i \in 1 .. Len(node.body) :
       node.body[i].type = "Include" /\ node.body[i].header = "stdio.h"

\* if (JSON.stringify(ast).includes("stdio.h")) emit("INCLUDE", "stdio.h", ...)
emitInclude(node, st) ==
  IF MentionsStdio(node) THEN emit(st, "INCLUDE", "stdio.h", Null, Null) ELSE st

(***************************************************************************)
(* The optimizer: optimizeCode.                                            *)
(***************************************************************************)
maxPasses == 5

\* a fold that keeps the left operand instead of computing the result
FoldedToLeft(operation, arg1, arg2) == arg1

\* const result = parseFloat(arg1) <op> parseFloat(arg2); result.toString()
Folded(operation, arg1, arg2) ==
  LET a == parseFloat(arg1)
      b == parseFloat(arg2)
  IN IF a.nan \/ b.nan THEN "NaN"
     ELSE CASE operation = "ADD" -> ToStr(a.v + b.v)
            [] operation = "SUB" -> ToStr(a.v - b.v)
            [] operation = "MUL" -> ToStr(a.v * b.v)

\* {...current, operation: "ASSIGN", arg1: arg1, arg2: null}
AsAssign(current, arg1) ==
  [current EXCEPT !.operation = "ASSIGN", !.arg1 = arg1, !.arg2 = Null]

\* the body of the optimizer's for loop for one instruction: what it pushes
\* to newOptimized (nothing or one instruction) and whether it sets `changed`.
\* `next` is optimized[i + 1], NullNode when there is none.
OptimizeInstruction(current, next) ==
  IF /\ current.operation = "ASSIGN"
     /\ next /= NullNode
     /\ next.operation = "ASSIGN"
     /\ current.result = next.result
  THEN [out |-> <<>>, changed |-> TRUE]
  ELSE IF /\ current.operation \in {"ADD", "SUB", "MUL"}
          /\ ~isNaN(current.arg1)
          /\ ~isNaN(current.arg2)
  THEN [out |-> <<AsAssign(current, Folded(current.operation, current.arg1, current.arg2))>>,
        changed |-> TRUE]
  ELSE IF current.operation = "ADD" /\ current.arg2 = "0"
  THEN [out |-> <<AsAssign(current, current.arg1)>>, changed |-> TRUE]
  ELSE IF current.operation = "MUL" /\ (current.arg2 = "1" \/ current.arg1 = "1")
  THEN [out |-> <<AsAssign(current, IF current.arg2 = "1" THEN current.arg1 ELSE current.arg2)>>,
        changed |-> TRUE]
  ELSE IF current.operation = "MUL" /\ (current.arg2 = "0" \/ current.arg1 = "0")
  THEN [out |-> <<AsAssign(current, "0")>>, changed |-> TRUE]
  ELSE [out |-> <<current>>, changed |-> FALSE]

\* optimized[i], NullNode (undefined) outside the array
InstrAt(code, i) == IF i >= 1 /\ i <= Len(code) THEN code[i] ELSE NullNode

RECURSIVE Concat(_)
\* the concatenation of a sequence of sequences
Concat(seqs) == IF Len(seqs) = 0 THEN <<>> ELSE Head(seqs) \o Concat(Tail(seqs))

\* a pass that pushes the instruction it rewrote next to the rewritten one
OptimizePassKeepingOriginal(code) ==
  LET steps == [i \in 1 .. Len(code) |->
                  OptimizeInstruction(code[i], InstrAt(code, i + 1))]
      both == [i \in 1 .. Len(code) |->
                 IF steps[i].changed /\ steps[i].out /= <<>>
                 THEN <<code[i]>> \o steps[i].out
                 ELSE steps[i].out]
  IN [code |-> Concat(both),
      changed |-> \E i \in 1 .. Len(steps) : steps[i].changed]

Pushed(step) == step.out /= <<>>

\* one pass of the while loop: each iteration of the for loop reads
\* `optimized` and pushes nothing or one instruction to newOptimized
OptimizePassResult(code) ==
  LET steps == [i \in 1 .. Len(code) |->
                  OptimizeInstruction(code[i], InstrAt(code, i + 1))]
      pushed == SelectSeq(steps, Pushed)
  IN [code |-> [k \in 1 .. Len(pushed) |-> pushed[k].out[1]],
      changed |-> \E i \in 1 .. Len(steps) : steps[i].changed]

\* a loop that stops after its first pass
LoopContinuesOnce(isChanged, nPasses) == isChanged /\ nPasses < 1

\* the condition of the optimizer's while loop
LoopContinues(isChanged, nPasses) == isChanged /\ nPasses < maxPasses

(***************************************************************************)
(* Input programs of the code generator.                                   *)
(***************************************************************************)
IntType == <<"int">>

MainOf(stmts) == Program(<<FunctionDeclaration(IntType, FALSE, "main", <<>>, BlockStatement(stmts))>>)

Lits == 0 .. MaxLit

\* int main() { int y = a + b; return y; }
SumProgram(a, b) ==
  MainOf(<<VariableDeclaration(IntType,
             <<VariableDeclarator("y", FALSE, BinaryExpression("+", NumLit(a), NumLit(b)))>>),
           ReturnStatement(Identifier("y"))>>)

SumPrograms == { SumProgram(a, b) : a \in Lits, b \in Lits }

AssignStmt(name, e) == ExpressionStatement(AssignmentExpression(Identifier(name), e))

\* straight-line statements: arithmetic on literals, the algebraic identities,
\* plain stores, copies, an increment and an operand the generator lowers to null
StraightStmts ==
  { AssignStmt("x", BinaryExpression(op, NumLit(a), NumLit(b))) :
      op \in {"+", "-", "*"}, a \in Lits, b \in Lits }
  \cup { AssignStmt("x", BinaryExpression(op, Identifier("y"), NumLit(a))) :
      op \in {"+", "*"}, a \in {0, 1} }
  \cup { AssignStmt("x", BinaryExpression("*", NumLit(a), Identifier("y"))) : a \in {0, 1} }
  \cup { AssignStmt(v, NumLit(a)) : v \in {"x", "y"}, a \in Lits }
  \cup { AssignStmt(v, Identifier(w)) : v \in {"x", "y"}, w \in {"x", "y"} }
  \cup { ExpressionStatement(UnaryExpression("++", Identifier("x"))),
         ExpressionStatement(UnaryExpression("++", NumLit(1))),
         AssignStmt("x", BinaryExpression("+", Identifier("y"),
                                          UnaryExpression("~", Identifier("y")))),
         VariableDeclaration(IntType, <<VariableDeclarator("x", FALSE, NullNode)>>) }

StraightPrograms ==
  { MainOf(<<s>>) : s \in StraightStmts }
  \cup { MainOf(<<s1, s2>>) : s1 \in StraightStmts, s2 \in StraightStmts }

CondX == BinaryExpression("<", Identifier("x"), NumLit(1))

NestLeaves == { BreakStatement, ContinueStatement, AssignStmt("x", NumLit(1)) }

\* control-flow statements nested to depth d: each constructor nests one
\* statement of the previous depth
RECURSIVE NestStmts(_)
NestStmts(d) ==
  IF d = 0 THEN NestLeaves
  ELSE LET inner == NestStmts(d - 1)
       IN inner
          \cup { IfStatement(CondX, s, NullNode) : s \in inner }
          \cup { IfStatement(CondX, s, ContinueStatement) : s \in inner }
          \cup { IfStatement(CondX, BreakStatement, s) : s \in inner }
          \cup { WhileStatement(CondX, s) : s \in inner }
          \cup { ForStatement(AssignStmt("x", NumLit(0)).expression, CondX,
                              UnaryExpression("++", Identifier("x")), s) : s \in inner }
          \cup { ForStatement(NullNode, NullNode, NullNode, s) : s \in inner }
          \cup { BlockStatement(<<s, ContinueStatement>>) : s \in inner }
          \cup { BlockStatement(<<BreakStatement, s>>) : s \in inner }

NestPrograms ==
  { MainOf(<<s, ReturnStatement(NumLit(0))>>) : s \in NestStmts(MaxDepth) }

\* programs whose only loop is one for statement
ForInits ==
  { NullNode, AssignmentExpression(Identifier("i"), NumLit(0)),
    VariableDeclaration(IntType, <<VariableDeclarator("i", FALSE, NumLit(0))>>) }

ForTests == { NullNode } \cup { BinaryExpression("<", Identifier("i"), NumLit(a)) : a \in Lits }

ForUpdates ==
  { NullNode, UnaryExpression("++", Identifier("i")),
    AssignmentExpression(Identifier("i"), BinaryExpression("+", Identifier("i"), NumLit(1))) }

ForBodies ==
  { BlockStatement(<<>>), AssignStmt("x", NumLit(1)),
    BlockStatement(<<BreakStatement>>), BlockStatement(<<ContinueStatement>>) }

ForLoops ==
  { ForStatement(i, t, u, b) : i \in ForInits, t \in ForTests, u \in ForUpdates, b \in ForBodies }

ForProgram(loop) == MainOf(<<loop, ReturnStatement(NumLit(0))>>)

ForPrograms == { ForProgram(l) : l \in ForLoops }

\* programs of function declarations: forward declarations (no body) and
\* definitions, under names that include one shaped like a generated label
FuncNames == { "main", "f", "ELSE0" }

FuncBodies ==
  { NullNode,
    BlockStatement(<<ReturnStatement(NumLit(0))>>),
    BlockStatement(<<IfStatement(CondX, AssignStmt("x", NumLit(1)), NullNode),
                     ReturnStatement(NumLit(0))>>) }

FuncDecls == { FunctionDeclaration(IntType, FALSE, n, <<>>, b) : n \in FuncNames, b \in FuncBodies }

RECURSIVE SeqsUpTo(_, _)
\* the sequences over S of length 1 .. n
SeqsUpTo(S, n) ==
  IF n = 0 THEN {}
  ELSE { <<x>> : x \in S }
       \cup { Append(q, x) : q \in SeqsUpTo(S, n - 1), x \in S }

FuncPrograms == { Program(q) : q \in SeqsUpTo(FuncDecls, MaxFuncs) }

\* #include <stdio.h> before main
StdioProgram ==
  Program(<<[type |-> "Include", header |-> "stdio.h", system |-> TRUE],
            FunctionDeclaration(IntType, FALSE, "main", <<>>,
              BlockStatement(<<ReturnStatement(NumLit(0))>>))>>)

\* calls of f with 0 .. MaxArgs arguments: literals and a variable
CallArgs == { NumLit(0), NumLit(1), Identifier("x") }

CallsOfF == { CallExpression("f", <<>>) } \cup { CallExpression("f", q) : q \in SeqsUpTo(CallArgs, MaxArgs) }

\* int main() { f(...); return 0; }   and   int main() { return f(...); }
CallStmtProgram(call) == MainOf(<<ExpressionStatement(call), ReturnStatement(NumLit(0))>>)

CallReturnProgram(call) == MainOf(<<ReturnStatement(call)>>)

CallGenPrograms ==
  { CallStmtProgram(c) : c \in CallsOfF } \cup { CallReturnProgram(c) : c \in CallsOfF }

\* a dead store and a sum of literals in the bodies of a loop and of an
\* if-else:   x = 1; x = 2;      x = 1 + 2;
OptimizableBodies ==
  { BlockStatement(<<AssignStmt("x", NumLit(1)), AssignStmt("x", NumLit(2)), leaf>>) :
      leaf \in {BreakStatement, ContinueStatement} }
  \cup { BlockStatement(<<AssignStmt("x", BinaryExpression("+", NumLit(1), NumLit(2)))>>) }

LoopGenPrograms ==
  { MainOf(<<WhileStatement(CondX, b)>>) : b \in OptimizableBodies }
  \cup { MainOf(<<ForStatement(NullNode, CondX, NullNode, b)>>) : b \in OptimizableBodies }
  \cup { MainOf(<<WhileStatement(CondX, IfStatement(CondX, b, BreakStatement))>>) :
           b \in OptimizableBodies }

GenPrograms ==
  SumPrograms \cup StraightPrograms \cup NestPrograms \cup ForPrograms
  \cup FuncPrograms \cup {StdioProgram} \cup CallGenPrograms \cup LoopGenPrograms

(***************************************************************************)
(* formatIntermediateCode: the lines of the text (joined by "\n").         *)
(***************************************************************************)
\* index.toString().padStart(3, " ")
PadStart3(str) ==
  IF Len(str) >= 3 THEN str ELSE IF Len(str) = 2 THEN " " \o str ELSE "  " \o str

FormatInstruction(instruction, index) ==
  IF instruction.operation = "LABEL" THEN instruction.label \o ":"
  ELSE PadStart3(ToStr(index)) \o ": " \o instruction.operation
       \o (IF instruction.arg1 /= Null THEN " " \o instruction.arg1 ELSE "")
       \o (IF instruction.arg2 /= Null THEN " " \o instruction.arg2 ELSE "")
       \o (IF instruction.result /= Null THEN " -> " \o instruction.result ELSE "")

formatIntermediateCode(code) ==
  [i \in 1 .. Len(code) |-> FormatInstruction(code[i], i - 1)]

(***************************************************************************)
(* State.                                                                  *)
(***************************************************************************)
VARIABLES
  \* one invocation of codeGenerator(ast, symbolTable)
  genAst,       \* the ast argument
  genPc,        \* "idle", "start", "optimize", "failed", "done"
  ctx,          \* the generation context (intermediateCode, counters, ...)
  optimized,    \* optimizeCode's `optimized`
  changed,      \* optimizeCode's `changed`
  passes,       \* optimizeCode's `passes`
  genResult,    \* the object codeGenerator returns
  \* one invocation of semanticAnalyzer(ast, code)
  semAst,       \* the ast argument
  semCode,      \* the code argument: what the analyzer's scans of it find
  semClock,     \* how Date.now() and Math.random() behave during the run
  semPc,        \* "idle", "start", "preprocessed", "built", "typed", "checked",
                \* "failed", "done"
  sem,          \* symbolTable, errors, variableUses and the clock
  semResult,    \* the object semanticAnalyzer returns
  \* the analyzer UI component
  code, tokens, ast, syntaxErrors, symbolTable, semanticErrors,
  codeGenResult, activeTab, analysisState,
  \* one invocation of parser(tokens)
  parseTokens,  \* the tokens argument
  parse,        \* `current`, `errors` and what the run has come to
  body,         \* parseProgram's `body`
  parsePc,      \* "idle", "loop", "done"
  parseResult,  \* the object parser returns
  \* one comparison of types by areTypesCompatible
  cmpTarget, cmpSource, cmpThird,
  compat,       \* what areTypesCompatible returned for the pairs of the three
  typePc,       \* "idle", "start", "done"; "operands", "typed"
  \* one call of getExpressionType on a binary expression a <op> b
  binLeft, binRight,  \* the declared types of a and b
  binOp,        \* the operator
  binType       \* what getExpressionType returned

genVars == <<genAst, genPc, ctx, optimized, changed, passes, genResult>>

semVars == <<semAst, semCode, semClock, semPc, sem, semResult>>

uiVars == <<code, tokens, ast, syntaxErrors, symbolTable, semanticErrors,
            codeGenResult, activeTab, analysisState>>

parseVars == <<parseTokens, parse, body, parsePc, parseResult>>

typeVars ==
  <<cmpTarget, cmpSource, cmpThird, compat, typePc, binLeft, binRight, binOp, binType>>

vars == <<genVars, semVars, uiVars, parseVars, typeVars>>

ParseIdle ==
  /\ parseTokens = <<>>
  /\ parse = [type |-> "null"]
  /\ body = <<>>
  /\ parsePc = "idle"
  /\ parseResult = [type |-> "null"]

TypesIdle ==
  /\ cmpTarget = <<>>
  /\ cmpSource = <<>>
  /\ cmpThird = <<>>
  /\ compat = [type |-> "null"]
  /\ typePc = "idle"
  /\ binLeft = <<>>
  /\ binRight = <<>>
  /\ binOp = "+"
  /\ binType = <<>>

(***************************************************************************)
(* codeGenerator(ast, symbolTable): the try block.                         *)
(***************************************************************************)
GenIdle ==
  /\ genAst = NullNode
  /\ genPc = "idle"
  /\ ctx = NewContext
  /\ optimized = <<>>
  /\ changed = FALSE
  /\ passes = 0
  /\ genResult = NullNode

GenStart(program) ==
  /\ genAst = program
  /\ genPc = "start"
  /\ ctx = NewContext
  /\ optimized = <<>>
  /\ changed = FALSE
  /\ passes = 0
  /\ genResult = NullNode

\* the INCLUDE instruction, generateCode(ast), and the first three statements
\* of optimizeCode; an exception thrown by generateCode leaves the try block
Generate ==
  /\ genPc = "start"
  /\ ctx' = generateCode(genAst, emitInclude(genAst, ctx))
  /\ IF Thrown(ctx')
     THEN /\ genPc' = "failed"
          /\ UNCHANGED <<optimized, changed, passes>>
     ELSE /\ optimized' = ctx'.code
          /\ changed' = TRUE
          /\ passes' = 0
          /\ genPc' = "optimize"
  /\ UNCHANGED <<genAst, genResult, semVars, uiVars, parseVars, typeVars>>

\* an iteration that stores the pass's result into intermediateCode itself
OptimizePassInPlace ==
  /\ genPc = "optimize"
  /\ LoopContinues(changed, passes)
  /\ passes' = passes + 1
  /\ LET r == OptimizePassResult(optimized)
     IN /\ optimized' = r.code
        /\ changed' = r.changed
        /\ ctx' = [ctx EXCEPT !.code = r.code]
  /\ UNCHANGED <<genAst, genPc, genResult, semVars, uiVars, parseVars, typeVars>>

\* one iteration of optimizeCode's while loop
OptimizePass ==
  /\ genPc = "optimize"
  /\ LoopContinues(changed, passes)
  /\ passes' = passes + 1
  /\ LET r == OptimizePassResult(optimized)
     IN /\ optimized' = r.code
        /\ changed' = r.changed
  /\ UNCHANGED <<genAst, genPc, ctx, genResult, semVars, uiVars, parseVars, typeVars>>

\* statistics of the returned object
Statistics(context, optimizedCode) ==
  [instructionCount |-> Len(context.code),
   optimizedInstructionCount |-> Len(optimizedCode),
   tempVariables |-> context.tempVarCounter,
   labels |-> context.labelCounter,
   optimizationPasses |-> 5]

\* the object codeGenerator returns (its assemblyCode text is not modelled)
Result(context, optimizedCode) ==
  [intermediateCode |-> formatIntermediateCode(context.code),
   optimizedCode |-> formatIntermediateCode(optimizedCode),
   stringLiterals |-> context.stringLiterals,
   statistics |-> Statistics(context, optimizedCode),
   errors |-> context.errors]

\* the object the catch block returns: the failure is pushed onto `errors`,
\* after whatever generateCode pushed before it threw
GenFailure(context) ==
  [intermediateCode |-> <<>>,
   optimizedCode |-> <<>>,
   stringLiterals |-> <<>>,
   statistics |-> <<>>,
   errors |-> Append(context.errors,
                     [message |-> "Code generation failed: " \o context.thrown,
                      type |-> "codegen"])]

\* catch (err)
GenCatch ==
  /\ genPc = "failed"
  /\ genResult' = GenFailure(ctx)
  /\ genPc' = "done"
  /\ UNCHANGED <<genAst, ctx, optimized, changed, passes, semVars, uiVars, parseVars, typeVars>>

\* optimizeCode returns; the result object is built
GenReturn ==
  /\ genPc = "optimize"
  /\ ~LoopContinues(changed, passes)
  /\ genResult' = Result(ctx, optimized)
  /\ genPc' = "done"
  /\ UNCHANGED <<genAst, ctx, optimized, changed, passes, semVars, uiVars, parseVars, typeVars>>

(***************************************************************************)
(* Semantic analyzer: src/src/utils/semanticAnalyzer.js.                   *)
(*                                                                         *)
(* A type string is modelled as the sequence of its pieces: the specifier  *)
(* names, the " " that join(" ") puts between them, and the suffixes "*"   *)
(* and "[]".  "const char*" is <<"const", " ", "char", "*">>.  null and    *)
(* the empty string, both falsy, are <<>>.                                 *)
(***************************************************************************)
NoType == <<>>

\* an AST field that is absent reads as undefined
Undefined == [type |-> "undefined"]

Field(node, f) == IF f \in DOMAIN node THEN node[f] ELSE Undefined

\* a boolean field that may be absent, read as a condition
Flag(node, f) == f \in DOMAIN node /\ node[f]

\* `if (x)` for an AST position
Truthy(node) == node /= NullNode /\ node /= Undefined

RECURSIVE TypeText(_)
\* the string a type denotes
TypeText(t) == IF Len(t) = 0 THEN "" ELSE Head(t) \o TypeText(Tail(t))

RECURSIVE JoinSpace(_)
\* names.join(" ")
JoinSpace(names) ==
  IF Len(names) = 0 THEN <<>>
  ELSE IF Len(names) = 1 THEN <<names[1]>>
  ELSE <<names[1], " ">> \o JoinSpace(Tail(names))

\* specifiers.map((s) => s.name || s.kind || "").filter(Boolean).join(" ")
SpecifiersType(declSpecs) ==
  JoinSpace([i \in 1 .. Len(declSpecs.specifiers) |-> declSpecs.specifiers[i].name])

\* the symbol table: an object, modelled as its entries in insertion order
Has(table, key) == \E i \in 1 .. Len(table) : table[i].key = key

Get(table, key) ==
  IF Has(table, key)
  THEN table[CHOOSE i \in 1 .. Len(table) : table[i].key = key].sym
  ELSE NullNode

\* symbolTable[key] = sym: an existing key keeps its place
Put(table, key, sym) ==
  IF Has(table, key)
  THEN [i \in 1 .. Len(table) |->
          IF table[i].key = key THEN [key |-> key, sym |-> sym] ELSE table[i]]
  ELSE Append(table, [key |-> key, sym |-> sym])

getSymbolKey(name, scope) == scope \o ":" \o name

\* the key resolveVariable finds the symbol under, Null when it finds none:
\* the current scope, the scope stack innermost first, then builtin
RECURSIVE resolveInStack(_, _, _, _)
resolveInStack(name, scopeStack, i, table) ==
  IF i < 1 THEN Null
  ELSE IF Has(table, getSymbolKey(name, scopeStack[i]))
       THEN getSymbolKey(name, scopeStack[i])
       ELSE resolveInStack(name, scopeStack, i - 1, table)

resolveKey(name, currentScope, scopeStack, table) ==
  IF name = Null THEN Null
  ELSE IF Has(table, getSymbolKey(name, currentScope))
  THEN getSymbolKey(name, currentScope)
  ELSE LET k == resolveInStack(name, scopeStack, Len(scopeStack), table)
       IN IF k /= Null THEN k
          ELSE IF Has(table, getSymbolKey(name, "builtin"))
               THEN getSymbolKey(name, "builtin")
               ELSE Null

resolveVariable(name, currentScope, scopeStack, table) ==
  LET k == resolveKey(name, currentScope, scopeStack, table)
  IN IF k = Null THEN NullNode ELSE Get(table, k)

(***************************************************************************)
(* areTypesCompatible                                                      *)
(***************************************************************************)
RECURSIVE DropSpaces(_)
\* the leading " " pieces removed
DropSpaces(t) == IF Len(t) > 0 /\ Head(t) = " " THEN DropSpaces(Tail(t)) ELSE t

RECURSIVE StripQualifiers(_)
\* type.replace(/\bconst\s+|\bvolatile\s+/g, ""): a qualifier goes with the
\* white space after it; one with nothing after it stays
StripQualifiers(t) ==
  IF Len(t) = 0 THEN <<>>
  ELSE IF Head(t) \in {"const", "volatile"} /\ Len(t) > 1 /\ t[2] = " "
       THEN StripQualifiers(DropSpaces(Tail(t)))
       ELSE <<Head(t)>> \o StripQualifiers(Tail(t))

RECURSIVE TrimEnd(_)
TrimEnd(t) ==
  IF Len(t) > 0 /\ t[Len(t)] = " " THEN TrimEnd(SubSeq(t, 1, Len(t) - 1)) ELSE t

\* String.prototype.trim
Trim(t) == TrimEnd(DropSpaces(t))

\* normalizeType without its replace: the qualifiers stay
normalizeTypeKeepingQualifiers(t) == Trim(t)

normalizeType(t) == Trim(StripQualifiers(t))

endsWith(t, piece) == Len(t) > 0 /\ t[Len(t)] = piece

\* t.slice(0, -n).trim() for the suffix "*" (n = 1) or "[]" (n = 2)
BaseType(t) == Trim(SubSeq(t, 1, Len(t) - 1))

numericTypes ==
  { <<"int">>, <<"float">>, <<"double">>, <<"char">>, <<"short">>, <<"long">>,
    <<"long", " ", "long">>, <<"unsigned", " ", "int">>, <<"unsigned", " ", "char">>,
    <<"unsigned", " ", "short">>, <<"unsigned", " ", "long">> }

RECURSIVE areTypesCompatible(_, _)
areTypesCompatible(targetType, sourceType) ==
  IF targetType = NoType \/ sourceType = NoType THEN FALSE
  ELSE IF targetType = sourceType THEN TRUE
  ELSE LET normalizedTarget == normalizeType(targetType)
           normalizedSource == normalizeType(sourceType)
       IN IF normalizedTarget = normalizedSource THEN TRUE
          ELSE IF normalizedTarget \in numericTypes /\ normalizedSource \in numericTypes
          THEN TRUE
          ELSE IF endsWith(normalizedTarget, "*") /\ endsWith(normalizedSource, "*")
          THEN IF normalizedTarget = <<"void", "*">> \/ normalizedSource = <<"void", "*">>
               THEN TRUE
               ELSE areTypesCompatible(BaseType(normalizedTarget), BaseType(normalizedSource))
          ELSE IF endsWith(normalizedTarget, "*") /\ endsWith(normalizedSource, "[]")
          THEN areTypesCompatible(BaseType(normalizedTarget), BaseType(normalizedSource))
          ELSE FALSE

(***************************************************************************)
(* The analyzer's state, threaded through its traversals as a record:      *)
(*   symbolTable, errors, variableUses   the analyzer's three collections  *)
(*   now        the value the next Date.now() returns                      *)
(*   seed       what tells the random values of this run from another's    *)
(*   randCalls  the number of Math.random() calls made                     *)
(*   step       what Date.now() advances by between two calls              *)
(*   randUnique whether the random tags drawn differ                       *)
(*   thrown     the exception in flight, Null when there is none           *)
(* (functionCalls is only ever appended to and is left out.)               *)
(***************************************************************************)
NewAnalysis(clock) ==
  [symbolTable |-> <<>>, errors |-> <<>>, variableUses |-> {}, now |-> clock.start,
   seed |-> clock.seed, randCalls |-> 0, step |-> clock.step,
   randUnique |-> clock.randUnique,
   thrown |-> Null]

\* Date.now()
dateNow(st) ==
  [val |-> ToStr(st.now),
   st |-> IF Thrown(st) THEN st ELSE [st EXCEPT !.now = @ + st.step]]

\* Math.random().toString(36).substr(2, 9)
randomTag(st) ==
  [val |-> "r" \o ToStr(st.seed + IF st.randUnique THEN st.randCalls ELSE 0),
   st |-> IF Thrown(st) THEN st ELSE [st EXCEPT !.randCalls = @ + 1]]

\* getLineNumber(undefined) is 1 and getCodeLine(undefined) is "": the ASTs of
\* the model carry no locations
Diagnostic(message, description) ==
  [message |-> message, line |-> 1, code |-> "", description |-> description]

addError(st, e) == IF Thrown(st) THEN st ELSE [st EXCEPT !.errors = Append(@, e)]

includes(t, piece) == \E i \in 1 .. Len(t) : t[i] = piece

\* numeric literals written with a "."
DottedLits == { "1.5" }

IntT == <<"int">>

RECURSIVE getExpressionType(_, _, _, _)
getBinaryType(node, scope, scopeStack, st) ==
  LET l == getExpressionType(node.left, scope, scopeStack, st)
      r == getExpressionType(node.right, scope, scopeStack, l.st)
      leftType == l.type
      rightType == r.type
      op == node.operator
      t == IF op \in {"==", "!=", "<", ">", "<=", ">=", "&&", "||"} THEN IntT
           ELSE IF op \in {"+", "-", "*", "/", "%"}
           THEN IF leftType = NoType \/ rightType = NoType THEN NoType
                ELSE IF includes(leftType, "double") \/ includes(rightType, "double")
                THEN <<"double">>
                ELSE IF includes(leftType, "float") \/ includes(rightType, "float")
                THEN <<"float">>
                ELSE IF includes(leftType, "long") \/ includes(rightType, "long")
                THEN <<"long">>
                ELSE IF (includes(leftType, "*") \/ includes(rightType, "*"))
                        /\ op \in {"+", "-"}
                THEN IF includes(leftType, "*") THEN leftType ELSE rightType
                ELSE IntT
           ELSE NoType
  IN [type |-> t, st |-> r.st]

getUnaryType(node, scope, scopeStack, st) ==
  LET a == getExpressionType(node.argument, scope, scopeStack, st)
      argType == a.type
      op == node.operator
      t == IF argType = NoType THEN NoType
           ELSE CASE op = "&" -> Append(argType, "*")
                  [] op = "*" ->
                       IF endsWith(argType, "*") THEN BaseType(argType) ELSE NoType
                  [] op = "!" -> IntT
                  [] op \in {"-", "+", "~", "++", "--"} -> argType
                  [] OTHER -> NoType
  IN [type |-> t, st |-> a.st]

getExpressionType(node, scope, scopeStack, st) ==
  CASE ~Settled(st) \/ Thrown(st) \/ ~Truthy(node) -> [type |-> NoType, st |-> st]
    [] node.type = "Identifier" ->
         LET variable == resolveVariable(node.name, scope, scopeStack, st.symbolTable)
         IN IF variable /= NullNode
            THEN [type |-> variable.type,
                  st |-> [st EXCEPT !.variableUses = @ \cup {node.name}]]
            ELSE [type |-> NoType, st |-> st]
    [] node.type = "Literal" ->
         [type |-> IF node.valueType = "string" THEN <<"char", "*">>
                   ELSE IF node.valueType = "number" /\ node.value \in DottedLits
                        THEN <<"float">>
                        ELSE IntT,
          st |-> st]
    [] node.type = "BinaryExpression" -> getBinaryType(node, scope, scopeStack, st)
    [] node.type = "UnaryExpression" -> getUnaryType(node, scope, scopeStack, st)
    [] node.type = "AssignmentExpression" ->
         getExpressionType(node.left, scope, scopeStack, st)
    [] node.type = "CallExpression" ->
         LET funcSymbol == resolveVariable(NameOf(node.callee), scope, scopeStack,
                                           st.symbolTable)
         IN [type |-> IF funcSymbol /= NullNode /\ "returnType" \in DOMAIN funcSymbol
                      THEN funcSymbol.returnType
                      ELSE NoType,
             st |-> st]
    [] OTHER -> [type |-> NoType, st |-> st]

(***************************************************************************)
(* The object-valued properties of a node in the order the parser writes   *)
(* them, arrays flattened: what `for (const key in node)` visits.  The     *)
(* `location` objects hold numbers only and no traversal acts on them.     *)
(***************************************************************************)
Opt(x) == IF Truthy(x) THEN <<x>> ELSE <<>>

Children(node) ==
  LET t == node.type
  IN CASE t \in {"Program", "BlockStatement"} -> node.body
       [] t = "FunctionDeclaration" ->
            <<node.id, node.returnType>> \o node.params \o Opt(node.body)
       [] t = "VariableDeclaration" -> node.declarations \o <<node.typeSpecifiers>>
       [] t = "VariableDeclarator" -> <<node.id>> \o Opt(node.initializer)
       [] t = "DeclarationSpecifiers" -> node.specifiers
       [] t = "Parameter" -> <<node.paramType>>
       [] t = "IfStatement" ->
            <<node.test, node.consequent>> \o Opt(node.alternate)
       [] t = "WhileStatement" -> <<node.test, node.body>>
       [] t = "ForStatement" ->
            Opt(node.init) \o Opt(node.test) \o Opt(node.update) \o Opt(node.body)
       [] t = "ReturnStatement" -> Opt(node.argument)
       [] t = "ExpressionStatement" -> <<node.expression>>
       [] t \in {"BinaryExpression", "AssignmentExpression"} -> <<node.left, node.right>>
       [] t = "UnaryExpression" -> <<node.argument>>
       [] t = "CallExpression" -> <<node.callee>> \o node.arguments
       [] OTHER -> <<>>

RECURSIVE markVariablesAsUsed(_, _, _, _)
RECURSIVE markAll(_, _, _, _)

\* nodes.forEach((n) => markVariablesAsUsed(n, scope, scopeStack))
markAll(nodes, scope, scopeStack, st) ==
  IF Len(nodes) = 0 THEN st
  ELSE markAll(Tail(nodes), scope, scopeStack,
               markVariablesAsUsed(Head(nodes), scope, scopeStack, st))

\* `!variable.isParameter`: the field is set on parameters only
IsParameter(sym) == "isParameter" \in DOMAIN sym /\ sym.isParameter

markIdentifier(node, scope, scopeStack, st) ==
  LET variable == resolveVariable(node.name, scope, scopeStack, st.symbolTable)
  IN IF variable = NullNode THEN st
     ELSE LET s1 == [st EXCEPT !.variableUses = @ \cup {node.name}]
          IN IF ~variable.initialized /\ ~IsParameter(variable)
             THEN addError(s1,
                    [message |-> "Variable '" \o node.name \o "' used before initialization",
                     line |-> 1, code |-> "",
                     description |-> "Using uninitialized variable may lead to undefined behavior",
                     severity |-> "error"])
             ELSE s1

markVariablesAsUsed(node, scope, scopeStack, st) ==
  CASE ~Settled(st) \/ Thrown(st) \/ ~Truthy(node) -> st
    [] node.type = "Identifier" -> markIdentifier(node, scope, scopeStack, st)
    [] node.type = "BinaryExpression" ->
         markVariablesAsUsed(node.right, scope, scopeStack,
           markVariablesAsUsed(node.left, scope, scopeStack, st))
    [] node.type = "UnaryExpression" ->
         markVariablesAsUsed(node.argument, scope, scopeStack, st)
    [] node.type = "AssignmentExpression" ->
         markVariablesAsUsed(node.right, scope, scopeStack, st)
    [] node.type = "CallExpression" ->
         markAll(node.arguments, scope, scopeStack, st)
    [] OTHER -> markAll(Children(node), scope, scopeStack, st)

(***************************************************************************)
(* addStandardLibraryFunctions and processPreprocessorDirectives           *)
(***************************************************************************)
ConstCharPtr == <<"const", " ", "char", "*">>

VoidPtr == <<"void", "*">>

stdFuncs ==
  << [name |-> "printf", returnType |-> IntT,
      params |-> << [name |-> "format", type |-> ConstCharPtr] >>, isVarArgs |-> TRUE],
     [name |-> "scanf", returnType |-> IntT,
      params |-> << [name |-> "format", type |-> ConstCharPtr] >>, isVarArgs |-> TRUE],
     [name |-> "malloc", returnType |-> VoidPtr,
      params |-> << [name |-> "size", type |-> <<"size_t">>] >>],
     [name |-> "free", returnType |-> <<"void">>,
      params |-> << [name |-> "ptr", type |-> VoidPtr] >>],
     [name |-> "strcpy", returnType |-> <<"char", "*">>,
      params |-> << [name |-> "dest", type |-> <<"char", "*">>],
                    [name |-> "src", type |-> ConstCharPtr] >>],
     [name |-> "strlen", returnType |-> <<"size_t">>,
      params |-> << [name |-> "str", type |-> ConstCharPtr] >>],
     [name |-> "puts", returnType |-> IntT,
      params |-> << [name |-> "str", type |-> ConstCharPtr] >>],
     [name |-> "putchar", returnType |-> IntT,
      params |-> << [name |-> "char", type |-> IntT] >>],
     [name |-> "getchar", returnType |-> IntT, params |-> <<>>],
     [name |-> "fopen", returnType |-> <<"FILE", "*">>,
      params |-> << [name |-> "filename", type |-> ConstCharPtr],
                    [name |-> "mode", type |-> ConstCharPtr] >>],
     [name |-> "fclose", returnType |-> IntT,
      params |-> << [name |-> "stream", type |-> <<"FILE", "*">>] >>],
     [name |-> "exit", returnType |-> <<"void">>,
      params |-> << [name |-> "status", type |-> IntT] >>],
     [name |-> "memcpy", returnType |-> VoidPtr,
      params |-> << [name |-> "dest", type |-> VoidPtr],
                    [name |-> "src", type |-> <<"const", " ", "void", "*">>],
                    [name |-> "n", type |-> <<"size_t">>] >>],
     [name |-> "memset", returnType |-> VoidPtr,
      params |-> << [name |-> "str", type |-> VoidPtr],
                    [name |-> "c", type |-> IntT],
                    [name |-> "n", type |-> <<"size_t">>] >>] >>

\* the symbol of one library function; isVarArgs stays undefined where the
\* list does not set it
builtinSymbol(func) ==
  LET base == [name |-> func.name, type |-> func.returnType \o <<" ", "function">>,
               returnType |-> func.returnType, scope |-> "builtin", line |-> 0,
               initialized |-> TRUE, params |-> func.params]
  IN IF "isVarArgs" \in DOMAIN func THEN base @@ [isVarArgs |-> func.isVarArgs]
     ELSE base

\* stdFuncs.forEach: the names of the list are distinct, so each entry is
\* written once, over the entry of the same key or after the last entry
addStandardLibraryFunctions(st) ==
  LET entries == [i \in 1 .. Len(stdFuncs) |->
                    [key |-> getSymbolKey(stdFuncs[i].name, "builtin"),
                     sym |-> builtinSymbol(stdFuncs[i])]]
      table == st.symbolTable
      IsNew(e) == ~Has(table, e.key)
      written == [i \in 1 .. Len(table) |->
                    IF \E j \in 1 .. Len(entries) : entries[j].key = table[i].key
                    THEN entries[CHOOSE j \in 1 .. Len(entries) :
                                   entries[j].key = table[i].key]
                    ELSE table[i]]
  IN [st EXCEPT !.symbolTable = written \o SelectSeq(entries, IsNew)]

(***************************************************************************)
(* The `code` argument is modelled by what the analyzer's scans of it      *)
(* find: whether it is empty, its #include directives (header, line), its  *)
(* #define directives (name, value, line) and the line getCodeLine(1)      *)
(* returns.                                                                *)
(***************************************************************************)
SourceText(isEmpty, incl, defs, firstLine) ==
  [empty |-> isEmpty, includes |-> incl, defines |-> defs, line1 |-> firstLine]

RECURSIVE addIncludes(_, _)
addIncludes(incl, table) ==
  IF Len(incl) = 0 THEN table
  ELSE LET name == "#include_" \o Head(incl).header
       IN addIncludes(Tail(incl),
            Put(table, getSymbolKey(name, "preprocessor"),
                [name |-> name, type |-> <<"preprocessor">>, scope |-> "preprocessor",
                 line |-> Head(incl).line, initialized |-> TRUE]))

RECURSIVE addDefines(_, _)
addDefines(defs, table) ==
  IF Len(defs) = 0 THEN table
  ELSE addDefines(Tail(defs),
         Put(table, getSymbolKey(Head(defs).name, "global"),
             [name |-> Head(defs).name, type |-> <<"macro">>, value |-> Head(defs).value,
              scope |-> "global", line |-> Head(defs).line, initialized |-> TRUE]))

processPreprocessorDirectives(text, st) ==
  IF text.empty THEN st
  ELSE LET s1 == addStandardLibraryFunctions(st)
       IN [s1 EXCEPT !.symbolTable = addDefines(text.defines, addIncludes(text.includes, @))]

(***************************************************************************)
(* Phase 1: buildSymbolTable                                               *)
(***************************************************************************)
RECURSIVE buildSymbolTable(_, _, _, _)
RECURSIVE buildAll(_, _, _, _)
RECURSIVE buildAndMarkAll(_, _, _, _)
RECURSIVE buildDeclarators(_, _, _, _, _)

\* statements.forEach((stmt) => buildSymbolTable(stmt, scope, stack))
buildAll(nodes, scope, scopeStack, st) ==
  IF Len(nodes) = 0 THEN st
  ELSE buildAll(Tail(nodes), scope, scopeStack,
                buildSymbolTable(Head(nodes), scope, scopeStack, st))

buildAndMark(node, scope, scopeStack, st) ==
  markVariablesAsUsed(node, scope, scopeStack,
                      buildSymbolTable(node, scope, scopeStack, st))

buildAndMarkAll(nodes, scope, scopeStack, st) ==
  IF Len(nodes) = 0 THEN st
  ELSE buildAndMarkAll(Tail(nodes), scope, scopeStack,
                       buildAndMark(Head(nodes), scope, scopeStack, st))

\* the `params` of a function symbol: the specifier names only
paramEntry(param) ==
  [name |-> IF param.name = "" THEN "unnamed" ELSE param.name,
   type |-> IF "specifiers" \in DOMAIN param.paramType
            THEN SpecifiersType(param.paramType)
            ELSE <<"unknown">>]

RECURSIVE addParameters(_, _, _)
addParameters(params, functionScope, table) ==
  IF Len(params) = 0 THEN table
  ELSE LET param == Head(params)
           t0 == IF "specifiers" \in DOMAIN param.paramType
                 THEN SpecifiersType(param.paramType)
                 ELSE <<"unknown">>
           t1 == IF param.isPointer THEN Append(t0, "*") ELSE t0
           paramType == IF param.isArray THEN Append(t1, "[]") ELSE t1
       IN addParameters(Tail(params), functionScope,
            IF param.name = "" THEN table
            ELSE Put(table, getSymbolKey(param.name, functionScope),
                     [name |-> param.name, type |-> paramType, scope |-> functionScope,
                      line |-> 1, initialized |-> TRUE, isParameter |-> TRUE]))

buildFunctionDeclaration(node, scope, scopeStack, st) ==
  LET functionName == NameOf(Field(node, "id"))
  IN IF functionName \in {Null, ""}
     THEN addError(st, Diagnostic("Function declaration missing name",
                                  "Invalid function declaration"))
     ELSE LET r0 == IF Truthy(Field(node, "returnType"))
                       /\ "specifiers" \in DOMAIN node.returnType
                    THEN SpecifiersType(node.returnType)
                    ELSE <<"void">>
              returnType == IF node.isPointerReturn THEN Append(r0, "*") ELSE r0
              functionKey == getSymbolKey(functionName, "global")
              s1 == [st EXCEPT !.symbolTable =
                       Put(@, functionKey,
                           [name |-> functionName,
                            type |-> returnType \o <<" ", "function">>,
                            returnType |-> returnType,
                            scope |-> "global",
                            line |-> 1,
                            params |-> [i \in 1 .. Len(node.params) |->
                                          paramEntry(node.params[i])],
                            initialized |-> node.body /= NullNode])]
          IN IF Truthy(node.body)
             THEN buildSymbolTable(node.body, functionName,
                    Append(scopeStack, functionName),
                    [s1 EXCEPT !.symbolTable = addParameters(node.params, functionName, @)])
             ELSE s1

\* the body of node.declarations.forEach; `declarator.id?.name` throws when
\* the declarator itself is null
buildDeclarators(decls, varType, scope, scopeStack, st) ==
  IF Thrown(st) \/ Len(decls) = 0 THEN st
  ELSE IF Head(decls) = NullNode THEN throw(st, CannotRead("id"))
  ELSE LET declarator == Head(decls)
           varName == NameOf(Field(declarator, "id"))
           t1 == IF Flag(declarator, "isPointer")
                 THEN Append(varType, "*") ELSE varType
           finalType == IF Flag(declarator, "isArray")
                        THEN Append(t1, "[]") ELSE t1
           varKey == getSymbolKey(varName, scope)
           s1 == [st EXCEPT !.symbolTable =
                    Put(@, varKey,
                        [name |-> varName, type |-> finalType, scope |-> scope,
                         line |-> 1,
                         initialized |-> Field(declarator, "initializer") /= Undefined,
                         isArray |-> Flag(declarator, "isArray"),
                         isPointer |-> Flag(declarator, "isPointer")])]
           after ==
             IF varName \in {Null, ""} THEN st
             ELSE IF Has(st.symbolTable, varKey)
             THEN addError(st,
                    Diagnostic("Redeclaration of variable '" \o varName \o "' in "
                                 \o scope \o " scope",
                               "Variable already declared in this scope"))
             ELSE IF Truthy(Field(declarator, "initializer"))
             THEN buildAndMark(declarator.initializer, scope, scopeStack, s1)
             ELSE s1
       IN buildDeclarators(Tail(decls), varType, scope, scopeStack, after)

buildVariableDeclaration(node, scope, scopeStack, st) ==
  IF ~Truthy(Field(node, "typeSpecifiers"))
  THEN addError(st, Diagnostic("Variable declaration missing type",
                               "Invalid variable declaration"))
  ELSE LET varType == IF "specifiers" \in DOMAIN node.typeSpecifiers
                      THEN SpecifiersType(node.typeSpecifiers)
                      ELSE NoType
       IN buildDeclarators(node.declarations, varType, scope, scopeStack, st)

buildBlock(node, scope, scopeStack, st) ==
  LET d == dateNow(st)
      r == randomTag(d.st)
      blockScope == "block_" \o scope \o "_" \o d.val \o "_" \o r.val
  IN buildAll(node.body, blockScope, Append(scopeStack, blockScope), r.st)

buildIf(node, scope, scopeStack, st) ==
  LET d == dateNow(st)
      ifScope == "if_" \o scope \o "_" \o d.val
      newScopeStack == Append(scopeStack, ifScope)
      s1 == markVariablesAsUsed(node.test, scope, scopeStack, d.st)
      s2 == buildSymbolTable(node.test, ifScope, newScopeStack, s1)
      s3 == buildSymbolTable(node.consequent, ifScope, newScopeStack, s2)
      e == dateNow(s3)
      elseScope == "else_" \o scope \o "_" \o e.val
  IN IF Truthy(node.alternate)
     THEN buildSymbolTable(node.alternate, elseScope, Append(scopeStack, elseScope), e.st)
     ELSE s3

buildFor(node, scope, scopeStack, st) ==
  LET d == dateNow(st)
      forScope == "for_" \o scope \o "_" \o d.val
      newScopeStack == Append(scopeStack, forScope)
      s1 == IF Truthy(node.init)
            THEN buildSymbolTable(node.init, forScope, newScopeStack, d.st)
            ELSE d.st
      s2 == IF Truthy(node.test)
            THEN buildSymbolTable(node.test, forScope, newScopeStack,
                   markVariablesAsUsed(node.test, scope, scopeStack, s1))
            ELSE s1
      s3 == IF Truthy(node.update)
            THEN buildSymbolTable(node.update, forScope, newScopeStack,
                   markVariablesAsUsed(node.update, scope, scopeStack, s2))
            ELSE s2
  IN IF Truthy(node.body)
     THEN buildSymbolTable(node.body, forScope, newScopeStack, s3)
     ELSE s3

buildWhile(node, scope, scopeStack, st) ==
  LET d == dateNow(st)
      whileScope == "while_" \o scope \o "_" \o d.val
      newScopeStack == Append(scopeStack, whileScope)
      s1 == markVariablesAsUsed(node.test, scope, scopeStack, d.st)
      s2 == buildSymbolTable(node.test, whileScope, newScopeStack, s1)
  IN buildSymbolTable(node.body, whileScope, newScopeStack, s2)

buildAssignment(node, scope, scopeStack, st) ==
  LET s1 == buildSymbolTable(node.left, scope, scopeStack, st)
      s2 == buildAndMark(node.right, scope, scopeStack, s1)
      varKey == resolveKey(NameOf(node.left), scope, scopeStack, s2.symbolTable)
  IN IF node.left.type = "Identifier" /\ varKey /= Null
     THEN [s2 EXCEPT !.symbolTable =
             Put(@, varKey, [Get(@, varKey) EXCEPT !.initialized = TRUE])]
     ELSE s2

RECURSIVE markFormatArguments(_, _, _, _)
\* the first loop of the CallExpression case, for the printf family
markFormatArguments(args, scope, scopeStack, st) ==
  IF Len(args) = 0 THEN st
  ELSE LET arg == Head(args)
           s1 == IF arg.type = "Identifier"
                 THEN [st EXCEPT !.variableUses = @ \cup {arg.name}]
                 ELSE st
       IN markFormatArguments(Tail(args), scope, scopeStack,
                              markVariablesAsUsed(arg, scope, scopeStack, s1))

buildCall(node, scope, scopeStack, st) ==
  LET funcName == NameOf(Field(node, "callee"))
      s1 == IF funcName \in {"printf", "fprintf", "sprintf", "scanf"}
            THEN markFormatArguments(node.arguments, scope, scopeStack, st)
            ELSE st
  IN buildAndMarkAll(node.arguments, scope, scopeStack, s1)

buildSymbolTable(node, scope, scopeStack, st) ==
  CASE ~Settled(st) \/ Thrown(st) \/ ~Truthy(node) -> st
    [] node.type = "Program" -> buildAll(node.body, scope, scopeStack, st)
    [] node.type \in {"Include", "PreprocessorDirective"} -> st
    [] node.type = "FunctionDeclaration" ->
         buildFunctionDeclaration(node, scope, scopeStack, st)
    [] node.type = "VariableDeclaration" ->
         buildVariableDeclaration(node, scope, scopeStack, st)
    [] node.type = "BlockStatement" -> buildBlock(node, scope, scopeStack, st)
    [] node.type = "IfStatement" -> buildIf(node, scope, scopeStack, st)
    [] node.type = "ForStatement" -> buildFor(node, scope, scopeStack, st)
    [] node.type = "WhileStatement" -> buildWhile(node, scope, scopeStack, st)
    [] node.type = "ReturnStatement" ->
         IF Truthy(node.argument)
         THEN buildAndMark(node.argument, scope, scopeStack, st)
         ELSE st
    [] node.type = "ExpressionStatement" ->
         IF Truthy(node.expression)
         THEN buildAndMark(node.expression, scope, scopeStack, st)
         ELSE st
    [] node.type = "AssignmentExpression" -> buildAssignment(node, scope, scopeStack, st)
    [] node.type = "CallExpression" -> buildCall(node, scope, scopeStack, st)
    [] OTHER -> buildAndMarkAll(Children(node), scope, scopeStack, st)

(***************************************************************************)
(* Phase 2: checkTypes.  Every call passes scope "global" and the stack    *)
(* ["global"].                                                             *)
(***************************************************************************)
GlobalStack == <<"global">>

RECURSIVE checkTypes(_, _)
RECURSIVE checkAll(_, _)
RECURSIVE checkArguments(_, _, _, _, _)

checkAll(nodes, st) ==
  IF Len(nodes) = 0 THEN st ELSE checkAll(Tail(nodes), checkTypes(Head(nodes), st))

checkAssignment(node, st) ==
  LET l == getExpressionType(node.left, "global", GlobalStack, st)
      r == getExpressionType(node.right, "global", GlobalStack, l.st)
      leftType == l.type
      rightType == r.type
      s1 == IF leftType /= NoType /\ rightType /= NoType
               /\ ~areTypesCompatible(leftType, rightType)
            THEN addError(r.st,
                   Diagnostic("Type mismatch in assignment: cannot assign '"
                                \o TypeText(rightType) \o "' to '"
                                \o TypeText(leftType) \o "'",
                              "Incompatible types in assignment"))
            ELSE r.st
  IN checkTypes(node.right, checkTypes(node.left, s1))

\* args.forEach((arg, i) => ...), from index i (1-based here)
checkArguments(args, i, expectedParams, funcName, st) ==
  IF i > Len(args) THEN st
  ELSE LET arg == args[i]
           s1 == checkTypes(arg, st)
           a == getExpressionType(arg, "global", GlobalStack, s1)
           argType == a.type
           paramType == expectedParams[i].type
           s2 == IF i <= Len(expectedParams)
                 THEN IF argType /= NoType /\ paramType /= NoType
                         /\ ~areTypesCompatible(paramType, argType)
                      THEN addError(a.st,
                             Diagnostic("Type mismatch in argument " \o ToStr(i)
                                          \o " of call to '" \o funcName
                                          \o "': expected '" \o TypeText(paramType)
                                          \o "', got '" \o TypeText(argType) \o "'",
                                        "Incompatible argument type"))
                      ELSE a.st
                 ELSE s1
       IN checkArguments(args, i + 1, expectedParams, funcName, s2)

checkCall(node, st) ==
  LET funcName == NameOf(Field(node, "callee"))
      funcSymbol == resolveVariable(funcName, "global", GlobalStack, st.symbolTable)
      expectedParams == IF "params" \in DOMAIN funcSymbol THEN funcSymbol.params ELSE <<>>
      args == node.arguments
      isVarArgs == \/ "isVarArgs" \in DOMAIN funcSymbol /\ funcSymbol.isVarArgs
                   \/ funcSymbol.name \in {"printf", "scanf"}
      s1 == IF ~isVarArgs /\ Len(args) /= Len(expectedParams)
            THEN addError(st,
                   Diagnostic("Function '" \o funcName \o "' called with "
                                \o ToStr(Len(args)) \o " arguments, but expected "
                                \o ToStr(Len(expectedParams)),
                              "Incorrect number of arguments in function call"))
            ELSE st
  IN IF funcSymbol = NullNode
     THEN addError(st,
            Diagnostic("Call to undefined function '" \o funcName \o "'",
                       "Function must be declared before use"))
     ELSE checkArguments(args, 1, expectedParams, funcName, s1)

checkTypes(node, st) ==
  CASE ~Settled(st) \/ Thrown(st) \/ ~Truthy(node) -> st
    [] node.type = "Program" -> checkAll(node.body, st)
    [] node.type = "AssignmentExpression" -> checkAssignment(node, st)
    [] node.type = "CallExpression" -> checkCall(node, st)
    [] OTHER -> checkAll(Children(node), st)

(***************************************************************************)
(* Phase 3: performSemanticChecks, and formatSymbolTable                   *)
(***************************************************************************)
\* getCodeLine(symbol.line): the symbol's line number read as a position
getCodeLine(text, position) == IF text.empty THEN "" ELSE text.line1

RECURSIVE unusedWarnings(_, _, _)
\* Object.entries(symbolTable).forEach, from entry i
unusedWarnings(text, i, st) ==
  IF i > Len(st.symbolTable) THEN st
  ELSE LET symbol == st.symbolTable[i].sym
           skipped == \/ includes(symbol.type, "function")
                      \/ symbol.scope = "builtin"
                      \/ symbol.scope = "preprocessor"
                      \/ IsParameter(symbol)
                      \/ symbol.type = <<"macro">>
       IN unusedWarnings(text, i + 1,
            IF ~skipped /\ symbol.name \notin st.variableUses
            THEN addError(st,
                   [message |-> "Unused variable '" \o symbol.name \o "'",
                    line |-> symbol.line,
                    code |-> getCodeLine(text, symbol.line),
                    description |-> "Variable is declared but never used",
                    severity |-> "warning"])
            ELSE st)

performSemanticChecks(text, st) ==
  LET hasMainFunction == Has(st.symbolTable, getSymbolKey("main", "global"))
      s1 == IF ~hasMainFunction /\ Len(st.symbolTable) > 0
            THEN addError(st, Diagnostic("Missing 'main' function",
                                         "C program requires a 'main' function"))
            ELSE st
  IN IF Thrown(st) THEN st ELSE unusedWarnings(text, 1, s1)

With(cond, extra, base) == IF cond THEN base @@ extra ELSE base

displayEntry(symbol) ==
  LET e0 == [type |-> symbol.type, scope |-> symbol.scope, line |-> symbol.line,
             initialized |-> symbol.initialized]
      e1 == With("params" \in DOMAIN symbol, [params |-> Field(symbol, "params")], e0)
      e2 == With(Flag(symbol, "isArray"), [isArray |-> TRUE], e1)
      e3 == With(Flag(symbol, "isPointer"), [isPointer |-> TRUE], e2)
  IN With("value" \in DOMAIN symbol /\ Field(symbol, "value") /= "",
          [value |-> Field(symbol, "value")], e3)

RECURSIVE formatFrom(_, _, _)
formatFrom(table, i, display) ==
  IF i > Len(table) THEN display
  ELSE LET symbol == table[i].sym
           displayName == IF symbol.scope = "global" THEN symbol.name
                          ELSE symbol.scope \o "." \o symbol.name
       IN formatFrom(table, i + 1,
            IF symbol.scope \in {"builtin", "preprocessor"} THEN display
            ELSE Put(display, displayName, displayEntry(symbol)))

formatSymbolTable(st) == formatFrom(st.symbolTable, 1, <<>>)

(***************************************************************************)
(* Inputs of the analyzer.                                                 *)
(***************************************************************************)
IntParam(name) == Parameter(IntType, name, FALSE, FALSE)

FuncDef(name, params, stmts) ==
  FunctionDeclaration(IntType, FALSE, name, params, BlockStatement(stmts))

MainDef(stmts) == FuncDef("main", <<>>, stmts)

\* int x;  or  int x = 1;
DeclX(withInit) ==
  VariableDeclaration(IntType,
    <<VariableDeclarator("x", FALSE, IF withInit THEN NumLit(1) ELSE NullNode)>>)

\* statements that read x
ReadsOfX ==
  { ReturnStatement(Identifier("x")),
    ReturnStatement(BinaryExpression("+", Identifier("x"), NumLit(1))),
    IfStatement(Identifier("x"), ReturnStatement(NumLit(0)), NullNode),
    ExpressionStatement(CallExpression("putchar", <<Identifier("x")>>)) }

\* nothing, or x = 2; before the read
StoresBefore == { <<>>, <<AssignStmt("x", NumLit(2))>> }

\* a variable x, global or local to main, with or without an initializer,
\* stored to or not, then read
InitPrograms ==
  { Program(<<DeclX(i), MainDef(w \o <<r>>)>>) :
      i \in BOOLEAN, w \in StoresBefore, r \in ReadsOfX }
  \cup { Program(<<MainDef(<<DeclX(i)>> \o w \o <<r>>)>>) :
      i \in BOOLEAN, w \in StoresBefore, r \in ReadsOfX }

\* int add(int a, int b) { return a + b; }
AddDef ==
  FuncDef("add", <<IntParam("a"), IntParam("b")>>,
          <<ReturnStatement(BinaryExpression("+", Identifier("a"), Identifier("b")))>>)

\* int add(int a, int b);
AddDecl ==
  FunctionDeclaration(IntType, FALSE, "add", <<IntParam("a"), IntParam("b")>>, NullNode)

\* a user-defined function of one parameter under a library name
\* int printf(int a) { return a; }
UserDef(name) == FuncDef(name, <<IntParam("a")>>, <<ReturnStatement(Identifier("a"))>>)

Callees == { "add", "printf", "scanf", "getchar", "puts", "foo" }

Args(n) == [i \in 1 .. n |-> NumLit(1)]

Calls == { CallExpression(f, Args(n)) : f \in Callees, n \in 0 .. MaxArgs }

\* the call as a statement, as the returned value, or as the argument of
\* another call
CallBodies ==
  { <<ReturnStatement(c)>> : c \in Calls }
  \cup { <<ExpressionStatement(c), ReturnStatement(NumLit(0))>> : c \in Calls }
  \cup { <<ReturnStatement(CallExpression(outer, <<c>>))>> :
           outer \in {"putchar", "bar"}, c \in Calls }

\* where the user's functions stand relative to main
CallPrograms ==
  UNION { { Program(<<MainDef(b)>>),
            Program(<<AddDef, MainDef(b)>>),
            Program(<<MainDef(b), AddDef>>),
            Program(<<AddDecl, MainDef(b), AddDef>>),
            Program(<<UserDef("printf"), MainDef(b)>>),
            Program(<<UserDef("scanf"), MainDef(b)>>) } : b \in CallBodies }

\* int <name> = <n>;
DeclVar(name, n) ==
  VariableDeclaration(IntType, <<VariableDeclarator(name, FALSE, NumLit(n))>>)

\* for (<init>; <test>; ) ;
ForOf(init, test) == ForStatement(init, test, NullNode, NullNode)

\* two scopes that follow each other in the body of main, each declaring
\* the same name:
\*   for (int i = 0; ; ) ;  for (int i = 0; ; ) ;
\*   if (1) int y = 1;  if (1) int y = 2;
\*   if (1) int y = 1;  else int y = 2;
\*   while (0) int y = 1;  while (0) int y = 2;
\*   { int y = 1; }  { int y = 2; }
\*   if (1) { int y = 1; }  if (1) { int y = 2; }
SiblingBodies ==
  { <<ForOf(DeclVar("i", 0), NullNode), ForOf(DeclVar("i", 0), NullNode)>>,
    <<IfStatement(NumLit(1), DeclVar("y", 1), NullNode),
      IfStatement(NumLit(1), DeclVar("y", 2), NullNode)>>,
    <<IfStatement(NumLit(1), DeclVar("y", 1), DeclVar("y", 2))>>,
    <<WhileStatement(NumLit(0), DeclVar("y", 1)),
      WhileStatement(NumLit(0), DeclVar("y", 2))>>,
    <<BlockStatement(<<DeclVar("y", 1)>>), BlockStatement(<<DeclVar("y", 2)>>)>>,
    <<IfStatement(NumLit(1), BlockStatement(<<DeclVar("y", 1)>>), NullNode),
      IfStatement(NumLit(1), BlockStatement(<<DeclVar("y", 2)>>), NullNode)>> }

SiblingPrograms ==
  { Program(<<MainDef(b \o <<ReturnStatement(NumLit(0))>>)>>) : b \in SiblingBodies }

\* a scope that declares a name, then a reference to the name after the
\* scope has closed:
\*   if (1) int y = 1;  return y;
\*   { int y = 1; }  return y;
\*   while (0) int y = 1;  while (y) ;
\*   for (int y = 0; ; ) ;  for ( ; y < 1; ) ;
\*   if (1) int y = 1;  if (y) ;
LeakBodies ==
  { <<IfStatement(NumLit(1), DeclVar("y", 1), NullNode),
      ReturnStatement(Identifier("y"))>>,
    <<BlockStatement(<<DeclVar("y", 1)>>), ReturnStatement(Identifier("y"))>>,
    <<WhileStatement(NumLit(0), DeclVar("y", 1)),
      WhileStatement(Identifier("y"), NullNode)>>,
    <<ForOf(DeclVar("y", 0), NullNode),
      ForOf(NullNode, BinaryExpression("<", Identifier("y"), NumLit(1)))>>,
    <<IfStatement(NumLit(1), DeclVar("y", 1), NullNode),
      IfStatement(Identifier("y"), NullNode, NullNode)>> }

LeakPrograms == { Program(<<MainDef(b)>>) : b \in LeakBodies }

ScopePrograms == SiblingPrograms \cup LeakPrograms

\* <type> x = 1;
VarX(typeName) ==
  VariableDeclaration(<<typeName>>, <<VariableDeclarator("x", FALSE, NumLit(1))>>)

\* <type> x() { return 0; }
FuncX(typeName) ==
  FunctionDeclaration(<<typeName>>, FALSE, "x", <<>>,
                      BlockStatement(<<ReturnStatement(NumLit(0))>>))

\* <type> x();
ProtoX(typeName) == FunctionDeclaration(<<typeName>>, FALSE, "x", <<>>, NullNode)

\* int f(<params>) { return 0; }
FuncOfParams(params) == FuncDef("f", params, <<ReturnStatement(NumLit(0))>>)

PlainText == SourceText(FALSE, <<>>, <<>>, "int main() {")

\* #define x 1  (and, on the next line, #define x 2)
DefineX(twice) ==
  SourceText(FALSE, <<>>,
             << [name |-> "x", value |-> "1", line |-> 1] >>
               \o (IF twice THEN << [name |-> "x", value |-> "2", line |-> 2] >>
                   ELSE <<>>),
             "#define x 1")

Main0 == MainDef(<<ReturnStatement(NumLit(0))>>)

\* a second declaration of a name in a scope: the program and the text,
\* the key of the name, and the same input without its second declaration
Redeclared(decls, text, key, firstDecls, firstText) ==
  [program |-> Program(decls \o <<Main0>>), text |-> text, key |-> key,
   first |-> Program(firstDecls \o <<Main0>>), firstText |-> firstText]

\* the first declaration is of type int, the second of type char:
\*   int x = 1; char x = 1;             int x = 1; char x() { return 0; }
\*   int x() { return 0; } char x = 1;  int x() { return 0; } char x() { return 0; }
\*   int x(); char x() { return 0; }    int f(int x, char x) { return 0; }
\*   #define x 1 / #define x 2          #define x 1 / char x = 1;
\*   #define x 1 / char x() { return 0; }
RedeclCases ==
  { Redeclared(<<a, b>>, PlainText, "global:x", <<a>>, PlainText) :
      a \in {VarX("int"), FuncX("int"), ProtoX("int")},
      b \in {VarX("char"), FuncX("char")} }
  \cup { Redeclared(<<FuncOfParams(<<IntParam("x"),
                                     Parameter(<<"char">>, "x", FALSE, FALSE)>>)>>,
                    PlainText, "f:x",
                    <<FuncOfParams(<<IntParam("x")>>)>>, PlainText),
         Redeclared(<<>>, DefineX(TRUE), "global:x", <<>>, DefineX(FALSE)),
         Redeclared(<<VarX("char")>>, DefineX(FALSE), "global:x", <<>>, DefineX(FALSE)),
         Redeclared(<<FuncX("char")>>, DefineX(FALSE), "global:x", <<>>, DefineX(FALSE)) }

RedeclInputs == { <<c.program, c.text>> : c \in RedeclCases }

\* int f() { return <e>; }
FuncF(e) == FuncDef("f", <<>>, <<ReturnStatement(e)>>)

\* programs without a function main:
\*   int f() { return 0; }
\*   int x = 1;
\*   int main = 1; int f() { return main; }
\*   int main;
NoMainPrograms ==
  { Program(<<FuncF(NumLit(0))>>),
    Program(<<VarX("int")>>),
    Program(<<DeclVar("main", 1), FuncF(Identifier("main"))>>),
    Program(<<VariableDeclaration(IntType,
                <<VariableDeclarator("main", FALSE, NullNode)>>)>>) }

\* #define main 1
DefineMain ==
  SourceText(FALSE, <<>>, << [name |-> "main", value |-> "1", line |-> 1] >>,
             "#define main 1")

\* a macro named main, in a program without and in a program with a
\* function main
MacroMainInputs ==
  { <<Program(<<FuncF(NumLit(0))>>), DefineMain>>,
    <<Program(<<Main0>>), DefineMain>> }

\* int n = 1;  char *s = "a";
DeclNS ==
  << DeclVar("n", 1),
     VariableDeclaration(<<"char">>,
       <<PointerDeclarator("s", FALSE, Literal("a", "string"))>>) >>

\* where n and s are declared, around the statement that uses them:
\*   int n = 1; char *s = "a"; int main() { <use> return 0; }
\*   int main() { int n = 1; char *s = "a"; <use> return 0; }
\*   int main() { int n = 1; char *s = "a"; if (1) { <use> } return 0; }
\*   int f(int n, char *s) { <use> return 0; } int main() { return 0; }
Typed(place, use) ==
  CASE place = "global" ->
         Program(DeclNS \o <<MainDef(<<use, ReturnStatement(NumLit(0))>>)>>)
    [] place = "local" ->
         Program(<<MainDef(DeclNS \o <<use, ReturnStatement(NumLit(0))>>)>>)
    [] place = "nested" ->
         Program(<<MainDef(DeclNS \o
                     <<IfStatement(NumLit(1), BlockStatement(<<use>>), NullNode),
                       ReturnStatement(NumLit(0))>>)>>)
    [] place = "parameter" ->
         Program(<<FuncDef("f", <<IntParam("n"), Parameter(<<"char">>, "s", FALSE, TRUE)>>,
                           <<use, ReturnStatement(NumLit(0))>>),
                   Main0>>)

Places == {"global", "local", "nested", "parameter"}

\* the uses, each with the declared type of its target and of its source:
\*   n = s;   s = n;   puts(n);   puts(s);
TypedUses ==
  { [use |-> AssignStmt("n", Identifier("s")), kind |-> "assignment",
     target |-> <<"int">>, source |-> <<"char", "*">>],
    [use |-> AssignStmt("s", Identifier("n")), kind |-> "assignment",
     target |-> <<"char", "*">>, source |-> <<"int">>],
    [use |-> ExpressionStatement(CallExpression("puts", <<Identifier("n")>>)),
     kind |-> "argument", target |-> ConstCharPtr, source |-> <<"int">>],
    [use |-> ExpressionStatement(CallExpression("puts", <<Identifier("s")>>)),
     kind |-> "argument", target |-> ConstCharPtr, source |-> <<"char", "*">>] }

TypeCases ==
  { [program |-> Typed(place, u.use), kind |-> u.kind, target |-> u.target,
     source |-> u.source] : place \in Places, u \in TypedUses }

TypePrograms == { c.program : c \in TypeCases }

\* one or two stores to x and no read of it:  x = 2;   x = 2; x = 3;
StoresOnly ==
  { <<AssignStmt("x", NumLit(2))>>,
    <<AssignStmt("x", NumLit(2)), AssignStmt("x", NumLit(3))>> }

\* a variable x that is only ever assigned, declared at the top level
\*   int x; int main() { x = 2; return 0; }
WriteOnlyGlobals ==
  { Program(<<DeclX(i), MainDef(w \o <<ReturnStatement(NumLit(0))>>)>>) :
      i \in BOOLEAN, w \in StoresOnly }

\* and declared in main
\*   int main() { int x; x = 2; return 0; }
WriteOnlyLocals ==
  { Program(<<MainDef(<<DeclX(i)>> \o w \o <<ReturnStatement(NumLit(0))>>)>>) :
      i \in BOOLEAN, w \in StoresOnly }

WriteOnlyPrograms == WriteOnlyGlobals \cup WriteOnlyLocals

SemPrograms ==
  InitPrograms \cup CallPrograms \cup ScopePrograms \cup NoMainPrograms
    \cup TypePrograms \cup WriteOnlyPrograms

\* a source text with no directive, one with an #include and a #define, and
\* the empty string
SemTexts ==
  { SourceText(FALSE, <<>>, <<>>, "int main() {"),
    SourceText(FALSE, << [header |-> "stdio.h", line |-> 1] >>,
               << [name |-> "N", value |-> "2", line |-> 2] >>, "#include <stdio.h>"),
    SourceText(TRUE, <<>>, <<>>, "") }

\* the clock and the random source of a run: the time at which it starts,
\* whether a millisecond passes between two calls of Date.now(), whether
\* two random tags drawn in the run differ, and the run's random seed
Clock(start, step, randUnique, seed) ==
  [start |-> start, step |-> step, randUnique |-> randUnique, seed |-> seed]

Clocks ==
  { Clock(0, step, randUnique, 0) : step \in {0, 1}, randUnique \in BOOLEAN }
  \cup { Clock(1, 0, TRUE, 0), Clock(0, 0, TRUE, 1) }

(***************************************************************************)
(* semanticAnalyzer(ast, code): the try block, phase by phase.             *)
(***************************************************************************)
SemIdle ==
  /\ semAst = NullNode
  /\ semCode = SourceText(TRUE, <<>>, <<>>, "")
  /\ semClock = Clock(0, 0, TRUE, 0)
  /\ semPc = "idle"
  /\ sem = NewAnalysis(semClock)
  /\ semResult = NullNode

SemStart(program, text, clock) ==
  /\ semAst = program
  /\ semCode = text
  /\ semClock = clock
  /\ semPc = "start"
  /\ sem = NewAnalysis(clock)
  /\ semResult = NullNode

SemPreprocess ==
  /\ semPc = "start"
  /\ sem' = processPreprocessorDirectives(semCode, sem)
  /\ semPc' = "preprocessed"
  /\ UNCHANGED <<semAst, semCode, semClock, semResult, genVars, uiVars, parseVars, typeVars>>

\* buildSymbolTable(ast); an exception it throws leaves the try block
SemBuild ==
  /\ semPc = "preprocessed"
  /\ sem' = buildSymbolTable(semAst, "global", GlobalStack, sem)
  /\ semPc' = IF Thrown(sem') THEN "failed" ELSE "built"
  /\ UNCHANGED <<semAst, semCode, semClock, semResult, genVars, uiVars, parseVars, typeVars>>

SemCheckTypes ==
  /\ semPc = "built"
  /\ sem' = checkTypes(semAst, sem)
  /\ semPc' = "typed"
  /\ UNCHANGED <<semAst, semCode, semClock, semResult, genVars, uiVars, parseVars, typeVars>>

SemChecks ==
  /\ semPc = "typed"
  /\ sem' = performSemanticChecks(semCode, sem)
  /\ semPc' = "checked"
  /\ UNCHANGED <<semAst, semCode, semClock, semResult, genVars, uiVars, parseVars, typeVars>>

\* the object the catch block returns: the failure is pushed onto `errors`,
\* after whatever the analysis pushed before it threw
SemFailure(st) ==
  [symbolTable |-> <<>>,
   errors |-> Append(st.errors,
                     [message |-> "Semantic analysis failed: " \o st.thrown,
                      line |-> 1, code |-> "",
                      description |-> "Internal error in semantic analyzer"])]

\* catch (err)
SemCatch ==
  /\ semPc = "failed"
  /\ semResult' = SemFailure(sem)
  /\ semPc' = "done"
  /\ UNCHANGED <<semAst, semCode, semClock, sem, genVars, uiVars, parseVars, typeVars>>

\* the object semanticAnalyzer returns
analysisResult(st) ==
  IF Thrown(st) THEN SemFailure(st)
  ELSE [symbolTable |-> formatSymbolTable(st), errors |-> st.errors]

SemReturn ==
  /\ semPc = "checked"
  /\ semResult' = analysisResult(sem)
  /\ semPc' = "done"
  /\ UNCHANGED <<semAst, semCode, semClock, sem, genVars, uiVars, parseVars, typeVars>>

(***************************************************************************)
(* The two stages as functions of their arguments, as the UI calls them.   *)
(***************************************************************************)
\* semanticAnalyzer(ast, code): the four stages of its try block, in order
semanticAnalyzer(program, text, clock) ==
  analysisResult(
    performSemanticChecks(text,
      checkTypes(program,
        buildSymbolTable(program, "global", GlobalStack,
          processPreprocessorDirectives(text, NewAnalysis(clock))))))

RECURSIVE optimizeCode(_, _, _)
\* optimizeCode's while loop, from the state (optimized, changed, passes)
optimizeCode(instructions, isChanged, nPasses) ==
  IF LoopContinues(isChanged, nPasses)
  THEN LET r == OptimizePassResult(instructions)
       IN optimizeCode(r.code, r.changed, nPasses + 1)
  ELSE instructions

\* the rest of codeGenerator once generateCode has filled the context
optimizeAndReturn(context) ==
  IF Thrown(context) THEN GenFailure(context)
  ELSE Result(context, optimizeCode(context.code, TRUE, 0))

\* codeGenerator(ast, symbolTable) as one function of the AST
codeGenerator(program) ==
  optimizeAndReturn(generateCode(program, emitInclude(program, NewContext)))

(***************************************************************************)
(* The analyzer UI: the CCompilerAnalyzer component.  The user types one   *)
(* of a few source texts, or clears the editor, and presses the buttons    *)
(* that are enabled.                                                       *)
(***************************************************************************)
\* the source texts the user enters, with the tokens the lexer makes of each
\* (their values) and what the parser returns for these tokens
Samples ==
  << [text |-> "int main() { return 0; }",
      tokens |-> <<"int", "main", "(", ")", "{", "return", "0", ";", "}">>,
      ast |-> MainOf(<<ReturnStatement(NumLit(0))>>),
      errors |-> <<>>],
     [text |-> "int main() { int x = 1; return 0; }",
      tokens |-> <<"int", "main", "(", ")", "{", "int", "x", "=", "1", ";",
                   "return", "0", ";", "}">>,
      ast |-> MainOf(<<DeclX(TRUE), ReturnStatement(NumLit(0))>>),
      errors |-> <<>>],
     [text |-> "int main() { int x; return x; }",
      tokens |-> <<"int", "main", "(", ")", "{", "int", "x", ";",
                   "return", "x", ";", "}">>,
      ast |-> MainOf(<<DeclX(FALSE), ReturnStatement(Identifier("x"))>>),
      errors |-> <<>>],
     [text |-> "int main() { foo(); return 0; }",
      tokens |-> <<"int", "main", "(", ")", "{", "foo", "(", ")", ";",
                   "return", "0", ";", "}">>,
      ast |-> MainOf(<<ExpressionStatement(CallExpression("foo", <<>>)),
                       ReturnStatement(NumLit(0))>>),
      errors |-> <<>>],
     [text |-> "int main() { return 0 }",
      tokens |-> <<"int", "main", "(", ")", "{", "return", "0", "}">>,
      ast |-> MainOf(<<ReturnStatement(NumLit(0))>>),
      errors |-> << [message |-> "Expected ';' after return statement"] >>],
     [text |-> ")",
      tokens |-> <<")">>,
      ast |-> Program(<<>>),
      errors |-> << [message |-> "Unexpected token at program level: )"] >>] >>

SampleOf(text) == Samples[CHOOSE i \in 1 .. Len(Samples) : Samples[i].text = text]

Texts == { Samples[i].text : i \in 1 .. Len(Samples) } \cup { "" }

\* lexer(code), for the sample texts
lexer(text) == SampleOf(text).tokens

\* parser(tokens), for the tokens of the sample texts
parser(toks) ==
  LET sample == Samples[CHOOSE i \in 1 .. Len(Samples) : Samples[i].tokens = toks]
  IN [ast |-> sample.ast, errors |-> sample.errors]

\* what the analyzer's scans find in the editor's text: the samples are one
\* line long and hold no directive
TextOf(text) == SourceText(text = "", <<>>, <<>>, text)

Tabs == { "lexical", "syntax", "semantic", "codegen" }

UIInit ==
  /\ code = ""
  /\ tokens = <<>>
  /\ ast = NullNode
  /\ syntaxErrors = <<>>
  /\ symbolTable = <<>>
  /\ semanticErrors = <<>>
  /\ codeGenResult = NullNode
  /\ activeTab = "lexical"
  /\ analysisState = [lexical |-> FALSE, syntax |-> FALSE, semantic |-> FALSE,
                      codegen |-> FALSE]

\* the editor's setCode followed by the effect on [code]
setCode(text) ==
  /\ text /= code
  /\ code' = text
  /\ IF text /= ""
     THEN /\ tokens' = lexer(text)
          /\ ast' = NullNode
          /\ syntaxErrors' = <<>>
          /\ symbolTable' = <<>>
          /\ semanticErrors' = <<>>
          /\ codeGenResult' = NullNode
          /\ analysisState' = [lexical |-> TRUE, syntax |-> FALSE, semantic |-> FALSE,
                               codegen |-> FALSE]
     ELSE /\ tokens' = <<>>
          /\ analysisState' = [analysisState EXCEPT !.lexical = FALSE]
          /\ UNCHANGED <<ast, syntaxErrors, symbolTable, semanticErrors, codeGenResult>>
  /\ UNCHANGED <<activeTab, genVars, semVars, parseVars, typeVars>>

canRunSyntaxAnalysis == Len(tokens) > 0

canRunSemanticAnalysis == ast /= NullNode /\ Len(syntaxErrors) = 0

canRunCodeGeneration ==
  /\ ast /= NullNode
  /\ Len(syntaxErrors) = 0
  /\ Len(semanticErrors) = 0
  /\ analysisState.semantic

\* the button is enabled and its handler does not return early
runSyntaxAnalysis ==
  /\ canRunSyntaxAnalysis
  /\ Len(tokens) /= 0
  /\ LET parsed == parser(tokens)
     IN /\ ast' = parsed.ast
        /\ syntaxErrors' = parsed.errors
        /\ activeTab' = IF Len(parsed.errors) = 0 THEN "syntax" ELSE activeTab
  /\ symbolTable' = <<>>
  /\ semanticErrors' = <<>>
  /\ codeGenResult' = NullNode
  /\ analysisState' = [analysisState EXCEPT !.syntax = TRUE, !.semantic = FALSE,
                                            !.codegen = FALSE]
  /\ UNCHANGED <<code, tokens, genVars, semVars, parseVars, typeVars>>

\* setSymbolTable, setSemanticErrors and the automatic switch of the tab
showSemanticResult(result) ==
  /\ symbolTable' = result.symbolTable
  /\ semanticErrors' = result.errors
  /\ activeTab' = IF Len(result.errors) = 0 THEN "semantic" ELSE activeTab

runSemanticAnalysis ==
  /\ canRunSemanticAnalysis
  /\ ast /= NullNode
  /\ \E clock \in Clocks :
       showSemanticResult(semanticAnalyzer(ast, TextOf(code), clock))
  /\ codeGenResult' = NullNode
  /\ analysisState' = [analysisState EXCEPT !.semantic = TRUE, !.codegen = FALSE]
  /\ UNCHANGED <<code, tokens, ast, syntaxErrors, genVars, semVars, parseVars, typeVars>>

runCodeGeneration ==
  /\ canRunCodeGeneration
  /\ ~(ast = NullNode \/ Len(semanticErrors) > 0)
  /\ codeGenResult' = codeGenerator(ast)
  /\ activeTab' = IF Len(codeGenResult'.errors) = 0 THEN "codegen" ELSE activeTab
  /\ analysisState' = [analysisState EXCEPT !.codegen = TRUE]
  /\ UNCHANGED <<code, tokens, ast, syntaxErrors, symbolTable, semanticErrors,
                 genVars, semVars, parseVars, typeVars>>

\* the tab buttons, each with its `disabled` condition
setActiveTab(tab) ==
  /\ tab /= activeTab
  /\ CASE tab = "lexical" -> analysisState.lexical
       [] tab = "syntax" -> ast /= NullNode
       [] tab = "semantic" -> analysisState.semantic
       [] tab = "codegen" -> analysisState.codegen
  /\ activeTab' = tab
  /\ UNCHANGED <<code, tokens, ast, syntaxErrors, symbolTable, semanticErrors,
                 codeGenResult, analysisState, genVars, semVars, parseVars, typeVars>>

(***************************************************************************)
(* Specifications: one per component, the other components at rest (each   *)
(* action leaves the variables of the other components unchanged).         *)
(***************************************************************************)
InitGen == SemIdle /\ UIInit /\ ParseIdle /\ TypesIdle /\ \E program \in GenPrograms : GenStart(program)

NextGen == Generate \/ OptimizePass \/ GenReturn

SpecGen == InitGen /\ [][NextGen]_vars

\* the (ast, code) pairs the analyzer is given
SemInputs == (SemPrograms \X SemTexts) \cup RedeclInputs \cup MacroMainInputs

InitSem ==
  /\ GenIdle
  /\ UIInit
  /\ ParseIdle
  /\ TypesIdle
  /\ \E input \in SemInputs, clock \in Clocks :
       SemStart(input[1], input[2], clock)

NextSem == SemPreprocess \/ SemBuild \/ SemCheckTypes \/ SemChecks \/ SemReturn

SpecSem == InitSem /\ [][NextSem]_vars

InitUI == GenIdle /\ SemIdle /\ UIInit /\ ParseIdle /\ TypesIdle

NextUI ==
  \/ \E text \in Texts : setCode(text)
  \/ runSyntaxAnalysis
  \/ runSemanticAnalysis
  \/ runCodeGeneration
  \/ \E tab \in Tabs : setActiveTab(tab)

SpecUI == InitUI /\ [][NextUI]_vars

(***************************************************************************)
(* Properties of the code generator (specification SpecGen).               *)
(***************************************************************************)
\* generateCode and optimizeCode have run on genAst
Generated == genPc \in {"optimize", "done"}

IsLabel(instruction) == instruction.operation = "LABEL"

\* the places of `LABEL label` in a TAC sequence
LabelPlaces(tac, label) ==
  { i \in 1 .. Len(tac) : IsLabel(tac[i]) /\ tac[i].label = label }

\* TAC holds the instruction `op arg1 arg2 -> result`
Holds(tac, op, arg1, arg2, result) ==
  \E i \in 1 .. Len(tac) :
    /\ tac[i].operation = op
    /\ tac[i].arg1 = arg1
    /\ tac[i].arg2 = arg2
    /\ tac[i].result = result

RECURSIVE Nodes(_)
RECURSIVE NodesOfAll(_)
\* the nodes of an AST, parents before children, in the order of the source
Nodes(node) == <<node>> \o NodesOfAll(Children(node))

NodesOfAll(nodes) ==
  IF Len(nodes) = 0 THEN <<>> ELSE Nodes(Head(nodes)) \o NodesOfAll(Tail(nodes))

IsControlFlow(node) ==
  node.type \in {"IfStatement", "WhileStatement", "ForStatement"}

\* C3 (as stated): for int main() { int y = a + b; return y; } the optimized
\* TAC holds ASSIGN <a+b> -> t0 and no longer ADD a b -> t0, and
\* statistics.optimizedInstructionCount < statistics.instructionCount.
C3_FoldShrinks ==
  genPc = "done" =>
    \A a \in Lits, b \in Lits :
      genAst = SumProgram(a, b) =>
        /\ Holds(ctx.code, "ADD", ToStr(a), ToStr(b), "t0")
        /\ Holds(optimized, "ASSIGN", ToStr(a + b), Null, "t0")
        /\ ~Holds(optimized, "ADD", ToStr(a), ToStr(b), "t0")
        /\ genResult.statistics.optimizedInstructionCount
             < genResult.statistics.instructionCount

\* C3 (amended): for int main() { int y = a + b; return y; } the optimized
\* TAC holds ASSIGN <a+b> -> t0 at the place where the raw TAC holds
\* ADD a b -> t0, every other instruction is unchanged, and
\* statistics.optimizedInstructionCount equals statistics.instructionCount.
C3_FoldInPlace ==
  genPc = "done" =>
    \A a \in Lits, b \in Lits :
      genAst = SumProgram(a, b) =>
        /\ Len(optimized) = Len(ctx.code)
        /\ \E i \in 1 .. Len(ctx.code) :
             /\ ctx.code[i] = [operation |-> "ADD", arg1 |-> ToStr(a), arg2 |-> ToStr(b),
                               result |-> "t0", label |-> Null, lineNumber |-> i - 1]
             /\ optimized[i] = [ctx.code[i] EXCEPT !.operation = "ASSIGN",
                                                   !.arg1 = ToStr(a + b), !.arg2 = Null]
             /\ \A j \in 1 .. Len(ctx.code) : j /= i => optimized[j] = ctx.code[j]
        /\ genResult.statistics.optimizedInstructionCount
             = genResult.statistics.instructionCount

\* the optimizer has folded 1 + 2 of int y = 1 + 2
C3_Witness ==
  /\ genPc = "done"
  /\ genAst = SumProgram(1, 2)
  /\ Holds(optimized, "ASSIGN", "3", Null, "t0")
  /\ genResult.statistics.instructionCount = 7

\* main's body starts with a for statement, the only control-flow statement
\* of the program
OnlyLoopIsFirstFor(program) ==
  /\ program.type = "Program"
  /\ Len(program.body) = 1
  /\ program.body[1].type = "FunctionDeclaration"
  /\ program.body[1].body /= NullNode
  /\ Len(program.body[1].body.body) > 0
  /\ program.body[1].body.body[1].type = "ForStatement"
  /\ Len(SelectSeq(Nodes(program), IsControlFlow)) = 1

TheFor(program) == program.body[1].body.body[1]

\* the TAC of the one for loop under the labels start, continue and end:
\* each label is emitted once, in this order; every IF_FALSE, and one when
\* the loop has a test, targets the end label; GOTO start stands right
\* before the end label and after the update, which follows the continue label
ForLayout(tac, loop, startLabel, continueLabel, endLabel) ==
  /\ \A l \in {startLabel, continueLabel, endLabel} : Cardinality(LabelPlaces(tac, l)) = 1
  /\ LET atStart == CHOOSE i \in LabelPlaces(tac, startLabel) : TRUE
         atContinue == CHOOSE i \in LabelPlaces(tac, continueLabel) : TRUE
         atEnd == CHOOSE i \in LabelPlaces(tac, endLabel) : TRUE
         tests == { i \in 1 .. Len(tac) : tac[i].operation = "IF_FALSE" }
     IN /\ atStart < atContinue
        /\ atContinue < atEnd
        /\ \A i \in tests : tac[i].result = endLabel /\ atStart < i /\ i < atContinue
        /\ (loop.test /= NullNode) = (tests /= {})
        /\ tac[atEnd - 1].operation = "GOTO"
        /\ tac[atEnd - 1].result = startLabel
        /\ (loop.update = NullNode) = (atEnd - 1 = atContinue + 1)

\* C4 (as stated): when the only loop is one for statement, the first
\* control-flow statement, the TAC has the labels FOR_START0, FOR_CONTINUE0
\* and FOR_END0, IF_FALSE targets FOR_END0 and GOTO FOR_START0 follows the
\* update.
C4_SameSuffix ==
  (Generated /\ OnlyLoopIsFirstFor(genAst)) =>
    ForLayout(ctx.code, TheFor(genAst), "FOR_START0", "FOR_CONTINUE0", "FOR_END0")

\* C4 (amended): when the only loop is one for statement, the first
\* control-flow statement, the TAC has the labels FOR_START0, FOR_CONTINUE1
\* and FOR_END2 (one counter numbers all labels), IF_FALSE targets FOR_END2
\* and GOTO FOR_START0 follows the update.
C4_ConsecutiveSuffixes ==
  (Generated /\ OnlyLoopIsFirstFor(genAst)) =>
    ForLayout(ctx.code, TheFor(genAst), "FOR_START0", "FOR_CONTINUE1", "FOR_END2")

\* a for loop with init, test and update has been generated
C4_Witness ==
  /\ genPc = "done"
  /\ OnlyLoopIsFirstFor(genAst)
  /\ TheFor(genAst).init /= NullNode
  /\ TheFor(genAst).test /= NullNode
  /\ TheFor(genAst).update /= NullNode
  /\ Holds(ctx.code, "GOTO", Null, Null, "FOR_START0")

\* C5 (as stated): no two LABEL instructions of the raw TAC carry the same
\* label, whatever the input AST.
C5_LabelsUnique ==
  Generated =>
    \A i \in 1 .. Len(ctx.code), j \in 1 .. Len(ctx.code) :
      (i /= j /\ IsLabel(ctx.code[i]) /\ IsLabel(ctx.code[j]))
        => ctx.code[i].label /= ctx.code[j].label

IsLoop(node) == node.type \in {"WhileStatement", "ForStatement"}

RECURSIVE LoopWalk(_, _, _)
RECURSIVE LoopWalkAll(_, _, _)
\* The break and continue statements of an AST in the order of the source,
\* each with the number of its innermost enclosing loop (0 outside any
\* loop); loops are numbered from 1 in the order of the source.
\* acc = [loops |-> the types of the loops met, jumps |-> the statements met]
LoopWalk(node, enclosing, acc) ==
  CASE node = NullNode -> acc
    [] node.type = "BreakStatement" ->
         [acc EXCEPT !.jumps = Append(@, [kind |-> "break", loop |-> enclosing])]
    [] node.type = "ContinueStatement" ->
         [acc EXCEPT !.jumps = Append(@, [kind |-> "continue", loop |-> enclosing])]
    [] IsLoop(node) ->
         LoopWalk(node.body, Len(acc.loops) + 1,
                  [acc EXCEPT !.loops = Append(@, node.type)])
    [] node.type = "IfStatement" ->
         LoopWalk(node.alternate, enclosing, LoopWalk(node.consequent, enclosing, acc))
    [] node.type \in {"Program", "BlockStatement"} ->
         LoopWalkAll(node.body, enclosing, acc)
    [] node.type = "FunctionDeclaration" -> LoopWalk(node.body, enclosing, acc)
    [] OTHER -> acc

LoopWalkAll(nodes, enclosing, acc) ==
  IF Len(nodes) = 0 THEN acc
  ELSE LoopWalkAll(Tail(nodes), enclosing, LoopWalk(Head(nodes), enclosing, acc))

LoopsAndJumps(program) == LoopWalk(program, 0, [loops |-> <<>>, jumps |-> <<>>])

InsideLoop(jump) == jump.loop > 0

OutsideLoop(jump) == jump.loop = 0

IsJumpDiagnostic(e) ==
  e.message \in {"Break statement outside of loop", "Continue statement outside of loop"}

\* the labels of the frame of a loop of the given type, each emitted once
FrameOfLoop(tac, frame, loopType) ==
  /\ Cardinality(LabelPlaces(tac, frame.startLabel)) = 1
  /\ Cardinality(LabelPlaces(tac, frame.continueLabel)) = 1
  /\ Cardinality(LabelPlaces(tac, frame.endLabel)) = 1
  /\ IF loopType = "WhileStatement"
     THEN /\ frame.continueLabel = frame.startLabel
          /\ \E n \in 0 .. Len(tac) : frame.startLabel = "WHILE_START" \o ToStr(n)
     ELSE \E n \in 0 .. Len(tac) : frame.continueLabel = "FOR_CONTINUE" \o ToStr(n)

\* C6: every GOTO emitted for a break targets the endLabel of the innermost
\* enclosing loop and every GOTO emitted for a continue that loop's
\* continueLabel (the start label of a while, the FOR_CONTINUE label of a
\* for), for any nesting; a break or continue outside any loop emits no
\* GOTO and records a codegen diagnostic.
C6_JumpTargets ==
  Generated =>
    LET walk == LoopsAndJumps(genAst)
        inside == SelectSeq(walk.jumps, InsideLoop)
        outside == SelectSeq(walk.jumps, OutsideLoop)
        diagnostics == SelectSeq(ctx.errors, IsJumpDiagnostic)
    IN /\ Len(ctx.frames) = Len(walk.loops)
       /\ \A n \in 1 .. Len(walk.loops) :
            FrameOfLoop(ctx.code, ctx.frames[n], walk.loops[n])
       /\ Len(ctx.jumps) = Len(inside)
       /\ \A k \in 1 .. Len(inside) :
            LET instruction == ctx.code[ctx.jumps[k].index]
                frame == ctx.frames[inside[k].loop]
            IN /\ ctx.jumps[k].kind = inside[k].kind
               /\ instruction.operation = "GOTO"
               /\ instruction.result =
                    IF inside[k].kind = "break" THEN frame.endLabel
                    ELSE frame.continueLabel
       /\ Len(diagnostics) = Len(outside)
       /\ \A k \in 1 .. Len(outside) :
            diagnostics[k].message =
              IF outside[k].kind = "break" THEN "Break statement outside of loop"
              ELSE "Continue statement outside of loop"

\* a break nested in two loops has been generated: it leaves the inner one
C6_Witness ==
  /\ genPc = "done"
  /\ Len(ctx.frames) = 2
  /\ \E k \in 1 .. Len(ctx.jumps) :
       /\ ctx.jumps[k].kind = "break"
       /\ ctx.code[ctx.jumps[k].index].result = ctx.frames[2].endLabel
       /\ ctx.jumps[k].index > CHOOSE i \in LabelPlaces(ctx.code, ctx.frames[2].startLabel) : TRUE

\* C7: statistics.optimizedInstructionCount <= statistics.instructionCount
\* for every input; each optimizer rule pushes one instruction or none for
\* the instruction it reads, so no pass lengthens the code.
C7_NeverLonger ==
  /\ Generated =>
       /\ Len(optimized) <= Len(ctx.code)
       /\ Len(OptimizePassResult(optimized).code) <= Len(optimized)
       /\ \A i \in 1 .. Len(optimized) :
            Len(OptimizeInstruction(optimized[i], InstrAt(optimized, i + 1)).out) <= 1
  /\ genPc = "done" =>
       genResult.statistics.optimizedInstructionCount
         <= genResult.statistics.instructionCount

\* the optimizer has dropped an instruction
C7_Witness ==
  /\ genPc = "done"
  /\ genResult.statistics.optimizedInstructionCount
       < genResult.statistics.instructionCount

\* C8: the sequence optimizeCode returns (at most 5 passes) is a fixed
\* point of the optimizer: one more pass, and the whole of optimizeCode run
\* again, change no instruction and remove none.
C8_FixedPoint ==
  genPc = "done" =>
    /\ OptimizePassResult(optimized) = [code |-> optimized, changed |-> FALSE]
    /\ optimizeCode(optimized, TRUE, 0) = optimized

\* the optimizer needed a second pass to reach its fixed point
C8_Witness ==
  /\ genPc = "done"
  /\ passes = 3
  /\ optimized /= ctx.code
  /\ optimized /= OptimizePassResult(ctx.code).code

(***************************************************************************)
(* Properties of the semantic analyzer (specification SpecSem).            *)
(***************************************************************************)
\* how many entries of a sequence of diagnostics carry the message
RECURSIVE CountMessage(_, _)
CountMessage(diagnostics, message) ==
  IF Len(diagnostics) = 0 THEN 0
  ELSE (IF Head(diagnostics).message = message THEN 1 ELSE 0)
       + CountMessage(Tail(diagnostics), message)

IsDeclarator(node) == node.type = "VariableDeclarator"

IsCall(node) == node.type = "CallExpression"

\* the symbols registered under the name, in any scope
SymbolsNamed(table, name) ==
  { table[i].sym : i \in { j \in 1 .. Len(table) : table[j].sym.name = name } }

\* the AST assigns to the variable somewhere
Assigns(program, name) ==
  \E i \in 1 .. Len(Nodes(program)) :
    /\ Nodes(program)[i].type = "AssignmentExpression"
    /\ NameOf(Nodes(program)[i].left) = name

UsedBeforeInitialization(name) ==
  "Variable '" \o name \o "' used before initialization"

\* C2 (as stated): a variable declared without an initializer is registered
\* with initialized = false, and a read of it that no assignment precedes
\* produces "Variable '<name>' used before initialization"; a variable
\* declared with an initializer is registered with initialized = true and
\* its reads produce no such error.  (The programs declare x once and read
\* it once, after the assignment when there is one; without an assignment
\* the flag keeps the value it was registered with.)
C2_InitializedTracksInitializer ==
  (semPc = "done" /\ semAst \in InitPrograms) =>
    LET declarators == SelectSeq(Nodes(semAst), IsDeclarator)
        symbols == SymbolsNamed(sem.symbolTable, "x")
        reported == CountMessage(sem.errors, UsedBeforeInitialization("x")) > 0
    IN /\ Len(declarators) = 1
       /\ Cardinality(symbols) = 1
       /\ IF declarators[1].initializer /= NullNode
          THEN (\A sym \in symbols : sym.initialized) /\ ~reported
          ELSE ~Assigns(semAst, "x") =>
                 (\A sym \in symbols : ~sym.initialized) /\ reported

CalleeNames == Callees \cup {"putchar", "bar"}

\* the calls of the AST to the function, with the given number of arguments
CallsWith(program, name, n) ==
  LET CallsIt(node) ==
        IsCall(node) /\ NameOf(node.callee) = name /\ Len(node.arguments) = n
  IN Len(SelectSeq(Nodes(program), CallsIt))

ArityMessage(name, n, m) ==
  "Function '" \o name \o "' called with " \o ToStr(n)
    \o " arguments, but expected " \o ToStr(m)

\* the symbol a callee name resolves to at the end of the analysis
Callee(name) == resolveVariable(name, "global", GlobalStack, sem.symbolTable)

\* C9 (as stated): for every call whose callee resolves to a symbol that is
\* not variadic, the analyzer emits exactly one diagnostic "Function '<f>'
\* called with <n> arguments, but expected <m>" when n differs from the
\* declared parameter count m and none when n = m, also for a user-defined
\* function named printf or scanf.
C9_OneArityDiagnosticPerCall ==
  semPc = "done" =>
    \A f \in CalleeNames, n \in 0 .. MaxArgs + 1 :
      (Callee(f) /= NullNode /\ ~Flag(Callee(f), "isVarArgs")) =>
        LET m == Len(Callee(f).params)
        IN CountMessage(sem.errors, ArityMessage(f, n, m))
             = IF n /= m THEN CallsWith(semAst, f, n) ELSE 0

UndefinedFunction(name) == "Call to undefined function '" \o name \o "'"

\* the calls of the AST to the function
CallsOf(program, name) ==
  LET CallsIt(node) == IsCall(node) /\ NameOf(node.callee) = name
  IN Len(SelectSeq(Nodes(program), CallsIt))

\* the program declares or defines a function of the name
DefinedByUser(program, name) ==
  \E i \in 1 .. Len(program.body) :
    /\ program.body[i].type = "FunctionDeclaration"
    /\ NameOf(program.body[i].id) = name

\* C10 (as stated): a call produces "Call to undefined function '<name>'"
\* exactly once if and only if its callee name resolves to no symbol in the
\* global or builtin scope; calls to user-defined functions, wherever they
\* are defined, and to the seeded standard-library functions never do.
C10_UndefinedIffUnresolved ==
  semPc = "done" =>
    \A f \in CalleeNames :
      LET resolves == \/ Has(sem.symbolTable, getSymbolKey(f, "global"))
                      \/ Has(sem.symbolTable, getSymbolKey(f, "builtin"))
      IN /\ CountMessage(sem.errors, UndefinedFunction(f))
              = IF resolves THEN 0 ELSE CallsOf(semAst, f)
         /\ DefinedByUser(semAst, f) => resolves

(***************************************************************************)
(* Properties of the analyzer UI (specification SpecUI).                   *)
(***************************************************************************)
\* a diagnostic that is not a warning: its severity is "error", or it
\* carries no severity (the analyzer's other errors.push calls set none)
IsErrorEntry(diagnostic) ==
  "severity" \notin DOMAIN diagnostic \/ diagnostic.severity = "error"

\* C1 (as stated): code generation is enabled whenever the AST exists,
\* syntax analysis reported no errors, semantic analysis has completed and
\* the semantic diagnostics hold no entry of severity "error"; warnings
\* alone never block the code-generation stage.
C1_WarningsDoNotBlock ==
  ( /\ ast /= NullNode
    /\ Len(syntaxErrors) = 0
    /\ analysisState.semantic
    /\ \A i \in 1 .. Len(semanticErrors) : ~IsErrorEntry(semanticErrors[i]) )
  => canRunCodeGeneration

(***************************************************************************)
(* Properties of the returned diagnostics (specification SpecSem).         *)
(***************************************************************************)
DiagnosticFields == {"message", "line", "code", "description", "severity"}

\* C11 (as stated): every element of the errors list semanticAnalyzer
\* returns carries message, line, code, description and a severity that is
\* "error" or "warning", whatever the kind of the diagnostic.
C11_EveryDiagnosticHasSeverity ==
  semPc = "done" =>
    \A i \in 1 .. Len(semResult.errors) :
      /\ DiagnosticFields \subseteq DOMAIN semResult.errors[i]
      /\ semResult.errors[i].severity \in {"error", "warning"}

(***************************************************************************)
(* Internal failures (specification SpecExc): both stages run on an AST    *)
(* that makes them throw, or on its well-formed counterpart.               *)
(***************************************************************************)
\* a declaration whose list of declarators holds null, and the same
\* declaration well formed:  int y;
DeclY(wellFormed) ==
  VariableDeclaration(IntType,
    <<IF wellFormed THEN VariableDeclarator("y", FALSE, NullNode) ELSE NullNode>>)

\* what precedes the declaration: nothing; a redeclaration, which the
\* analyzer reports; a break outside any loop, which the generator reports
ExcPrefixes ==
  { <<>>,
    <<DeclX(TRUE), DeclX(TRUE)>>,
    <<FuncDef("f", <<>>, <<BreakStatement, ReturnStatement(NumLit(0))>>)>>,
    <<DeclX(TRUE), DeclX(TRUE),
      FuncDef("f", <<>>, <<BreakStatement, ReturnStatement(NumLit(0))>>)>> }

\* the declaration at the top level, or inside the block of a while loop
\* of a function g
ExcPlaces(wellFormed) ==
  { <<DeclY(wellFormed)>>,
    <<FuncDef("g", <<>>,
        <<WhileStatement(NumLit(1), BlockStatement(<<DeclY(wellFormed)>>)),
          ReturnStatement(Identifier("y"))>>)>> }

ExcPrograms ==
  { Program(pre \o place \o <<MainDef(<<ReturnStatement(NumLit(0))>>)>>) :
      pre \in ExcPrefixes, place \in ExcPlaces(TRUE) \cup ExcPlaces(FALSE) }

InitExc ==
  /\ UIInit
  /\ ParseIdle
  /\ TypesIdle
  /\ \E program \in ExcPrograms, clock \in Clocks :
       /\ GenStart(program)
       /\ SemStart(program, SourceText(FALSE, <<>>, <<>>, "int x = 1;"), clock)

NextExc ==
  \/ Generate \/ OptimizePass \/ GenReturn \/ GenCatch
  \/ SemPreprocess \/ SemBuild \/ SemCheckTypes \/ SemChecks \/ SemReturn
  \/ SemCatch

SpecExc == InitExc /\ [][NextExc]_vars

\* the failure diagnostic of a stage
IsFailureOf(stage, diagnostic, message) ==
  diagnostic.message = stage \o " failed: " \o message

\* C12 (as stated): when an exception is thrown during semantic analysis or
\* code generation, the stage returns empty results and an errors list of
\* exactly one diagnostic, "<stage> failed: <message>"; the diagnostics
\* collected before the failure are not returned with it.
C12_FailureIsTheOnlyDiagnostic ==
  /\ (genPc = "done" /\ Thrown(ctx)) =>
       /\ genResult.intermediateCode = <<>>
       /\ genResult.optimizedCode = <<>>
       /\ genResult.statistics = <<>>
       /\ Len(genResult.errors) = 1
       /\ IsFailureOf("Code generation", genResult.errors[1], ctx.thrown)
  /\ (semPc = "done" /\ Thrown(sem)) =>
       /\ semResult.symbolTable = <<>>
       /\ Len(semResult.errors) = 1
       /\ IsFailureOf("Semantic analysis", semResult.errors[1], sem.thrown)

(***************************************************************************)
(* Properties of the scopes (specification SpecSem).                       *)
(***************************************************************************)
\* C13 (as stated): two invocations of semanticAnalyzer on the same AST and
\* source return identical symbol tables and identical error lists,
\* whatever the wall-clock time and the random values of each run.
C13_SameResultWhateverTheClock ==
  semPc = "done" =>
    \A clock \in Clocks : semanticAnalyzer(semAst, semCode, clock) = semResult

IsRedeclaration(diagnostic) ==
  diagnostic.description = "Variable already declared in this scope"

\* C14 (as stated): a symbol declared inside an inner scope is never
\* returned by resolveVariable for a reference placed after that scope has
\* closed (the reference marks no use of the name), and declarations of one
\* name in two sibling scopes are never reported as a redeclaration,
\* whatever the clock at which the scopes are created.
C14_ScopesAreIsolated ==
  semPc = "done" =>
    /\ semAst \in LeakPrograms => "y" \notin sem.variableUses
    /\ semAst \in SiblingPrograms => Len(SelectSeq(sem.errors, IsRedeclaration)) = 0


\* the analysis after its first two stages
built(program, text, clock) ==
  buildSymbolTable(program, "global", GlobalStack,
                   processPreprocessorDirectives(text, NewAnalysis(clock)))

\* C15 (as stated): every second declaration of a name in a scope, be the
\* declarations variables, functions, parameters or #define macros,
\* produces a redeclaration diagnostic and leaves the symbol registered
\* first under "<scope>:<name>" as it was.
C15_SecondDeclarationIsReported ==
  semPc = "done" =>
    \A c \in RedeclCases :
      (semAst = c.program /\ semCode = c.text) =>
        /\ \E i \in 1 .. Len(sem.errors) : IsRedeclaration(sem.errors[i])
        /\ Get(sem.symbolTable, c.key)
             = Get(built(c.first, c.firstText, semClock).symbolTable, c.key)


(***************************************************************************)
(* Properties of performSemanticChecks (specification SpecSem).            *)
(***************************************************************************)
DefinesFunction(program, name) ==
  \E i \in 1 .. Len(program.body) :
    /\ program.body[i].type = "FunctionDeclaration"
    /\ program.body[i].id.name = name

IsMissingMain(diagnostic) == diagnostic.message = "Missing 'main' function"

\* C20 (as stated): a program with at least one declaration and no function
\* named main gets the diagnostic "Missing 'main' function", and a program
\* that defines a function main never gets it; a global variable or a
\* macro named main does not count as the function.
C20_MissingMainIsReported ==
  semPc = "done" =>
    IF DefinesFunction(semAst, "main")
    THEN Len(SelectSeq(semResult.errors, IsMissingMain)) = 0
    ELSE Len(semAst.body) > 0 => Len(SelectSeq(semResult.errors, IsMissingMain)) > 0


(***************************************************************************)
(* Properties of checkTypes (specification SpecSem).                       *)
(***************************************************************************)
IsTypeMismatch(kind, diagnostic) ==
  diagnostic.description = (IF kind = "assignment"
                            THEN "Incompatible types in assignment"
                            ELSE "Incompatible argument type")

\* C18 (as stated): an assignment whose left-hand identifier and right-hand
\* expression have incompatible types gets a "Type mismatch in assignment"
\* diagnostic, and a call argument incompatible with the declared parameter
\* type a "Type mismatch in argument" diagnostic, be the variables globals,
\* parameters, or locals of a function body or of a nested block (the
\* source text is not empty, so that the library functions are declared).
C18_MismatchIsReportedEverywhere ==
  (semPc = "done" /\ ~semCode.empty) =>
    \A c \in TypeCases :
      (semAst = c.program /\ ~areTypesCompatible(c.target, c.source)) =>
        \E i \in 1 .. Len(semResult.errors) :
          IsTypeMismatch(c.kind, semResult.errors[i])


(***************************************************************************)
(* areTypesCompatible as a relation (specification SpecTypes): three type  *)
(* strings are given and the function is applied to their pairs.           *)
(***************************************************************************)
\* the type strings compared: the empty string, scalar types, pointers,
\* arrays, and qualified forms
TypeStrings ==
  { <<>>, <<"int">>, <<"char">>, <<"float">>, <<"FILE">>,
    <<"int", "*">>, <<"char", "*">>, <<"void", "*">>, <<"FILE", "*">>,
    <<"const", " ", "char", "*">>, <<"const", " ", "int">>,
    <<"int", "[]">>, <<"char", "[]">> }

TypesStart(a, b, c) ==
  /\ cmpTarget = a
  /\ cmpSource = b
  /\ cmpThird = c
  /\ compat = NullNode
  /\ typePc = "start"
  /\ binLeft = <<>>
  /\ binRight = <<>>
  /\ binOp = "+"
  /\ binType = <<>>

\* areTypesCompatible applied to the pairs of (a, b, c)
Compare ==
  /\ typePc = "start"
  /\ compat' = [aa |-> areTypesCompatible(cmpTarget, cmpTarget),
                ab |-> areTypesCompatible(cmpTarget, cmpSource),
                ba |-> areTypesCompatible(cmpSource, cmpTarget),
                bc |-> areTypesCompatible(cmpSource, cmpThird),
                ac |-> areTypesCompatible(cmpTarget, cmpThird)]
  /\ typePc' = "done"
  /\ UNCHANGED <<cmpTarget, cmpSource, cmpThird, binLeft, binRight, binOp, binType,
                 genVars, semVars, uiVars, parseVars>>

InitTypes ==
  /\ GenIdle
  /\ SemIdle
  /\ UIInit
  /\ ParseIdle
  /\ \E a \in TypeStrings, b \in TypeStrings, c \in TypeStrings : TypesStart(a, b, c)

NextTypes == Compare

SpecTypes == InitTypes /\ [][NextTypes]_vars

IsArrayType(t) == endsWith(t, "[]")

IsPointerType(t) == endsWith(t, "*")

\* C19 (as stated): areTypesCompatible is an equivalence relation on type
\* strings: reflexive, symmetric (array-to-pointer pairs included) and
\* transitive (chains through void* included).
C19_CompatIsEquivalence ==
  typePc = "done" =>
    /\ compat.aa
    /\ compat.ab => compat.ba
    /\ (compat.ab /\ compat.bc) => compat.ac

\* C19 (amended): areTypesCompatible is reflexive on the non-empty type
\* strings and symmetric on the pairs that hold no array type; a type is
\* compatible with its const-qualified form; an array decays to a pointer
\* in one direction only, T[] as the source of a T* target; void* is
\* compatible with every pointer, as target and as source.
C19_CompatLaws ==
  typePc = "done" =>
    /\ cmpTarget /= <<>> => compat.aa
    /\ (~IsArrayType(cmpTarget) /\ ~IsArrayType(cmpSource)) => (compat.ab <=> compat.ba)
    /\ (cmpTarget /= <<>> /\ cmpSource = <<"const", " ">> \o cmpTarget) => compat.ab
    /\ (IsPointerType(cmpTarget) /\ IsArrayType(cmpSource)
          /\ BaseType(cmpTarget) = BaseType(cmpSource)) => (compat.ab /\ ~compat.ba)
    /\ (cmpTarget = <<"void", "*">> /\ IsPointerType(cmpSource)) => (compat.ab /\ compat.ba)

\* int* accepts int[] but int[] does not accept int*
C19_Witness ==
  /\ typePc = "done"
  /\ cmpTarget = <<"int", "*">>
  /\ cmpSource = <<"int", "[]">>
  /\ compat.ab
  /\ ~compat.ba


(***************************************************************************)
(* Parser: src/unnamed/part_001.                                           *)
(* A token is a record of its type and value.  The parser's `current` and  *)
(* `errors` are threaded through the parsing functions in a record with    *)
(* the tokens:                                                             *)
(*   tokens, current, errors   as in the source (current counts from 0)    *)
(*   thrown    the exception in flight, Null when there is none            *)
(*   stalled   whether an iteration of a loop went on to the next one      *)
(*             without having consumed a token                             *)
(* Each parsing function returns the node it built and the record after    *)
(* it.  The `location` of a node holds numbers only; a node is modelled    *)
(* without it.                                                             *)
(***************************************************************************)
Token(type, value) == [type |-> type, value |-> value]

\* what peek() returns past the last token
NoToken == [type |-> "<eof>", value |-> "<eof>"]

NewParser(toks) ==
  [tokens |-> toks, current |-> 0, errors |-> <<>>, thrown |-> Null, stalled |-> FALSE]

\* nothing runs after an exception until the catch block; a loop that has
\* stalled is not run further
Halted(p) == Thrown(p) \/ p.stalled

HasToken(p) == p.current >= 0 /\ p.current < Len(p.tokens)

peek(p) == IF HasToken(p) THEN p.tokens[p.current + 1] ELSE NoToken

advance(p) == IF Halted(p) THEN p ELSE [p EXCEPT !.current = @ + 1]

\* peek() && peek().value === value
IsValue(p, value) == HasToken(p) /\ peek(p).value = value

\* peek() && peek().value !== value
NotValue(p, value) == HasToken(p) /\ peek(p).value /= value

\* peek() && peek().type === type
IsType(p, type) == HasToken(p) /\ peek(p).type = type

\* errors.push({ message, location })
syntaxError(p, message) ==
  IF Halted(p) THEN p ELSE [p EXCEPT !.errors = Append(@, [message |-> message])]

\* the end of one iteration of a loop that goes on to the next
Progress(before, after) ==
  IF Halted(after) \/ after.current > before.current THEN after
  ELSE [after EXCEPT !.stalled = TRUE]

\* expect(type, message): the token consumed, NoToken when it is another
expect(p, type, message) ==
  IF IsType(p, type) THEN [token |-> peek(p), p |-> advance(p)]
  ELSE [token |-> NoToken, p |-> syntaxError(p, message)]

expectValue(p, value, message) ==
  IF IsValue(p, value) THEN [token |-> peek(p), p |-> advance(p)]
  ELSE [token |-> NoToken, p |-> syntaxError(p, message)]

\* a node and the parser after it
Parsed(node, p) == [node |-> node, p |-> p]

\* a list of nodes and the parser after it
ParsedList(nodes, p) == [nodes |-> nodes, p |-> p]

RECURSIVE parseAssignmentExpression(_)
RECURSIVE parseBinaryExpression(_, _)
RECURSIVE binaryLoop(_, _, _)
RECURSIVE parseUnaryExpression(_)
RECURSIVE parsePrimaryExpression(_)
RECURSIVE parseArguments(_, _)

parseExpression(p) == parseAssignmentExpression(p)

(***************************************************************************)
(* Expressions                                                             *)
(***************************************************************************)
\* the `operators` table of parseBinaryExpression
operators ==
  [op \in {"+", "-", "*", "/", "%", "<", ">", "<=", ">=", "==", "!=", "&&", "||"} |->
     [precedence |-> CASE op \in {"*", "/", "%"} -> 5
                       [] op \in {"+", "-"} -> 4
                       [] op \in {"<", ">", "<=", ">="} -> 3
                       [] op \in {"==", "!="} -> 2
                       [] op = "&&" -> 1
                       [] op = "||" -> 0,
      associativity |-> "left"]]

unaryOperators == {"!", "-", "~", "++", "--", "&", "*"}

\* the operator's own precedence: what the right side would be parsed at
\* were the operator right-associative
samePrecedence(operator) == operators[operator].precedence

\* operators[operator].precedence + (associativity === "left" ? 1 : 0)
nextPrecedence(operator) ==
  operators[operator].precedence
    + (IF operators[operator].associativity = "left" THEN 1 ELSE 0)

\* the rest of an iteration of the while loop, once the right side is parsed
binaryRight(left, operator, precedence, r) ==
  IF r.node = NullNode THEN Parsed(NullNode, r.p)
  ELSE binaryLoop(BinaryExpression(operator, left, r.node), precedence, r.p)

\* while (peek() && operators[peek().value] && ....precedence >= precedence)
binaryLoop(left, precedence, p) ==
  IF Halted(p) THEN Parsed(NullNode, p)
  ELSE IF HasToken(p) /\ peek(p).value \in DOMAIN operators
          /\ operators[peek(p).value].precedence >= precedence
  THEN binaryRight(left, peek(p).value, precedence,
                   parseBinaryExpression(nextPrecedence(peek(p).value), advance(p)))
  ELSE Parsed(left, p)

binaryLeft(precedence, r) ==
  IF r.node = NullNode THEN Parsed(NullNode, r.p)
  ELSE binaryLoop(r.node, precedence, r.p)

parseBinaryExpression(precedence, p) ==
  binaryLeft(precedence, parseUnaryExpression(p))

assignmentRight(left, r) ==
  IF r.node = NullNode THEN Parsed(NullNode, r.p)
  ELSE Parsed(AssignmentExpression(left, r.node), r.p)

assignmentOf(l) ==
  IF l.node = NullNode THEN Parsed(NullNode, l.p)
  ELSE IF IsValue(l.p, "=")
  THEN assignmentRight(l.node, parseAssignmentExpression(advance(l.p)))
  ELSE l

parseAssignmentExpression(p) == assignmentOf(parseBinaryExpression(0, p))

unaryOf(operator, r) ==
  IF r.node = NullNode THEN Parsed(NullNode, r.p)
  ELSE Parsed(UnaryExpression(operator, r.node), r.p)

parseUnaryExpression(p) ==
  IF Halted(p) THEN Parsed(NullNode, p)
  ELSE IF HasToken(p) /\ peek(p).value \in unaryOperators
  THEN unaryOf(peek(p).value, parseUnaryExpression(advance(p)))
  ELSE parsePrimaryExpression(p)

\* the rest of an iteration of the argument loop, once the argument is parsed
argumentsNext(args, before, r) ==
  IF IsValue(r.p, ",")
  THEN parseArguments(IF r.node /= NullNode THEN Append(args, r.node) ELSE args,
                      Progress(before, advance(r.p)))
  ELSE ParsedList(IF r.node /= NullNode THEN Append(args, r.node) ELSE args, r.p)

\* while (peek() && peek().value !== ")")
parseArguments(args, p) ==
  IF ~Halted(p) /\ NotValue(p, ")")
  THEN argumentsNext(args, p, parseExpression(p))
  ELSE ParsedList(args, p)

callEnd(identifier, a) ==
  Parsed(CallExpression(identifier.value, a.nodes),
         IF IsValue(a.p, ")") THEN advance(a.p)
         ELSE syntaxError(a.p, "Expected ')' after function arguments"))

\* the function-call branch, after the '(' is consumed
parseCall(identifier, p) ==
  IF IsValue(p, ")") THEN Parsed(CallExpression(identifier.value, <<>>), advance(p))
  ELSE callEnd(identifier, parseArguments(<<>>, p))

\* the parenthesized branch, once the inner expression is parsed
closeParen(r) ==
  Parsed(r.node,
         IF IsValue(r.p, ")") THEN advance(r.p)
         ELSE syntaxError(r.p, "Expected ')' after expression"))

parsePrimaryExpression(p) ==
  IF Halted(p) \/ ~HasToken(p) THEN Parsed(NullNode, p)
  ELSE IF peek(p).type = "comment" THEN parsePrimaryExpression(advance(p))
  ELSE IF peek(p).type \in {"string", "number"}
  THEN Parsed(Literal(peek(p).value, peek(p).type), advance(p))
  ELSE IF peek(p).type = "identifier"
  THEN IF IsValue(advance(p), "(") THEN parseCall(peek(p), advance(advance(p)))
       ELSE Parsed(Identifier(peek(p).value), advance(p))
  ELSE IF peek(p).value = "(" THEN closeParen(parseExpression(advance(p)))
  ELSE IF peek(p).value \in {")", ";", ","} THEN Parsed(NullNode, p)
  ELSE Parsed(NullNode,
              advance(syntaxError(p, "Unexpected token in expression: " \o peek(p).value)))

(***************************************************************************)
(* Declarations                                                            *)
(***************************************************************************)
\* a token that starts declaration specifiers
StartsSpecifiers(token) ==
  token.type \in {"type", "qualifier"} \/ token.value \in {"struct", "union", "enum"}

RECURSIVE skipBraces(_, _)
\* do { ... advance(); } while (peek() && braceCount > 0), from braceCount
skipBraces(braceCount, p) ==
  IF Halted(p) THEN p
  ELSE IF HasToken(advance(p))
          /\ braceCount + (IF peek(p).value = "{" THEN 1 ELSE 0)
                        - (IF peek(p).value = "}" THEN 1 ELSE 0) > 0
  THEN skipBraces(braceCount + (IF peek(p).value = "{" THEN 1 ELSE 0)
                             - (IF peek(p).value = "}" THEN 1 ELSE 0),
                  Progress(p, advance(p)))
  ELSE advance(p)

\* the struct/union/enum branch, after the keyword `token` is consumed
complexType(token, p) ==
  LET named == IsType(p, "identifier")
      after == IF named THEN advance(p) ELSE p
  IN [node |-> [type |-> "ComplexType", kind |-> token.value,
                name |-> IF named THEN peek(p).value ELSE Null],
      p |-> IF IsValue(after, "{") THEN skipBraces(0, after) ELSE after]

RECURSIVE specifiersLoop(_, _)
specifiersNext(specifiers, before, r) ==
  specifiersLoop(Append(specifiers, r.node), Progress(before, r.p))

\* while (peek() && (peek().type === "type" || ...))
specifiersLoop(specifiers, p) ==
  IF ~Halted(p) /\ HasToken(p) /\ StartsSpecifiers(peek(p))
  THEN specifiersNext(specifiers, p,
         IF peek(p).value \in {"struct", "union", "enum"}
         THEN complexType(peek(p), advance(p))
         ELSE Parsed([type |-> IF peek(p).type = "qualifier" THEN "TypeQualifier"
                               ELSE "TypeSpecifier",
                      name |-> peek(p).value],
                     advance(p)))
  ELSE ParsedList(specifiers, p)

specifiersOf(s) ==
  IF Len(s.nodes) = 0 THEN Parsed(NullNode, s.p)
  ELSE Parsed([type |-> "DeclarationSpecifiers", specifiers |-> s.nodes], s.p)

parseDeclarationSpecifiers(p) == specifiersOf(specifiersLoop(<<>>, p))

declaratorEnd(identifierToken, isArray, r) ==
  Parsed(VariableDeclarator(identifierToken.value, isArray, r.node), r.p)

\* if (peek() && peek().value === "=") { ... }
declaratorInit(identifierToken, isArray, p) ==
  IF IsValue(p, "=")
  THEN declaratorEnd(identifierToken, isArray, parseExpression(advance(p)))
  ELSE Parsed(VariableDeclarator(identifierToken.value, isArray, NullNode), p)

\* the array dimension, after the '[' is consumed: the size expression is
\* parsed and dropped
arrayDimension(p, message) ==
  expectValue(IF NotValue(p, "]") THEN parseExpression(p).p ELSE p, "]", message).p

declaratorOf(id) ==
  IF id.token = NoToken THEN Parsed(NullNode, id.p)
  ELSE IF IsValue(id.p, "[")
  THEN declaratorInit(id.token, TRUE,
         arrayDimension(advance(id.p), "Expected ']' after array dimension"))
  ELSE declaratorInit(id.token, FALSE, id.p)

parseVariableDeclarator(p) ==
  declaratorOf(expect(p, "identifier", "Expected variable name"))

RECURSIVE parseDeclarators(_, _)
\* declarator.isPointer = true
withPointer(isPointer, declarator) ==
  IF isPointer
  THEN PointerDeclarator(declarator.id.name, declarator.isArray, declarator.initializer)
  ELSE declarator

\* the rest of an iteration of the declarator loop
declaratorsNext(declarators, before, isPointer, r) ==
  IF r.node = NullNode THEN ParsedList(declarators, r.p)
  ELSE IF IsValue(r.p, ",")
  THEN parseDeclarators(Append(declarators, withPointer(isPointer, r.node)),
                        Progress(before, advance(r.p)))
  ELSE ParsedList(Append(declarators, withPointer(isPointer, r.node)), r.p)

\* while (true)
parseDeclarators(declarators, p) ==
  IF Halted(p) THEN ParsedList(declarators, p)
  ELSE declaratorsNext(declarators, p, IsValue(p, "*"),
         parseVariableDeclarator(IF IsValue(p, "*") THEN advance(p) ELSE p))

variableDeclarationEnd(typeSpecifiers, d) ==
  Parsed([type |-> "VariableDeclaration", declarations |-> d.nodes,
          typeSpecifiers |-> typeSpecifiers],
         expectValue(d.p, ";", "Expected ';' after variable declaration").p)

variableDeclarationOf(s) ==
  IF s.node = NullNode THEN Parsed(NullNode, syntaxError(s.p, "Expected type specifier"))
  ELSE variableDeclarationEnd(s.node, parseDeclarators(<<>>, s.p))

parseVariableDeclaration(p) == variableDeclarationOf(parseDeclarationSpecifiers(p))

(***************************************************************************)
(* Statements                                                              *)
(***************************************************************************)
RECURSIVE parseStatement(_)
RECURSIVE blockLoop(_, _)

returnEnd(r) ==
  Parsed(ReturnStatement(r.node),
         expectValue(r.p, ";", "Expected ';' after return statement").p)

parseReturnStatement(p) ==
  IF NotValue(advance(p), ";") THEN returnEnd(parseExpression(advance(p)))
  ELSE returnEnd(Parsed(NullNode, advance(p)))

\* the rest of an iteration of the block's loop, once the statement is parsed
blockNext(blockBody, before, r) ==
  IF r.node /= NullNode THEN blockLoop(Append(blockBody, r.node), Progress(before, r.p))
  ELSE IF NotValue(r.p, "}") THEN blockLoop(blockBody, Progress(before, advance(r.p)))
  ELSE ParsedList(blockBody, r.p)

\* while (peek() && peek().value !== "}")
blockLoop(blockBody, p) ==
  IF ~Halted(p) /\ NotValue(p, "}") THEN blockNext(blockBody, p, parseStatement(p))
  ELSE ParsedList(blockBody, p)

blockEnd(b) ==
  Parsed(BlockStatement(b.nodes),
         expectValue(b.p, "}", "Expected '}' after block statement").p)

parseBlockStatement(p) ==
  IF IsValue(p, "{") THEN blockEnd(blockLoop(<<>>, advance(p)))
  ELSE Parsed(NullNode, syntaxError(p, "Expected '{' for block statement"))

\* the node of the if statement; `consequent.location.end` throws when there
\* is neither an alternate nor a consequent
ifEnd(test, consequent, alternate, p) ==
  IF alternate = NullNode /\ consequent = NullNode
  THEN Parsed(NullNode, throw(p, CannotRead("location")))
  ELSE Parsed(IfStatement(test, consequent, alternate), p)

ifAlternate(test, consequent, a) == ifEnd(test, consequent, a.node, a.p)

ifConsequent(test, c) ==
  IF IsValue(c.p, "else") THEN ifAlternate(test, c.node, parseStatement(advance(c.p)))
  ELSE ifEnd(test, c.node, NullNode, c.p)

ifTest(t) ==
  IF IsValue(t.p, ")") THEN ifConsequent(t.node, parseStatement(advance(t.p)))
  ELSE Parsed(NullNode, syntaxError(t.p, "Expected ')' after if condition"))

parseIfStatement(p) ==
  IF IsValue(advance(p), "(") THEN ifTest(parseExpression(advance(advance(p))))
  ELSE Parsed(NullNode, syntaxError(advance(p), "Expected '(' after 'if'"))

whileEnd(test, b) == Parsed(WhileStatement(test, b.node), b.p)

whileTest(t) ==
  IF IsValue(t.p, ")") THEN whileEnd(t.node, parseStatement(advance(t.p)))
  ELSE Parsed(NullNode, syntaxError(t.p, "Expected ')' after while condition"))

parseWhileStatement(p) ==
  IF IsValue(advance(p), "(") THEN whileTest(parseExpression(advance(advance(p))))
  ELSE Parsed(NullNode, syntaxError(advance(p), "Expected '(' after 'while'"))

forEnd(init, test, update, b) == Parsed(ForStatement(init, test, update, b.node), b.p)

\* the ')' is consumed silently, then the body
forBody(init, test, u) ==
  forEnd(init, test, u.node,
         parseStatement(IF IsValue(u.p, ")") THEN advance(u.p) ELSE u.p))

forUpdateAt(init, test, p) ==
  forBody(init, test, IF NotValue(p, ")") THEN parseExpression(p) ELSE Parsed(NullNode, p))

forUpdate(init, t) ==
  forUpdateAt(init, t.node,
              expectValue(t.p, ";", "Expected ';' after for loop condition").p)

forTest(i) ==
  forUpdate(i.node,
            IF NotValue(i.p, ";") THEN parseExpression(i.p) ELSE Parsed(NullNode, i.p))

forInitExpression(r) ==
  Parsed(r.node, expectValue(r.p, ";", "Expected ';' after for loop initialization").p)

\* the initialization, after the '(' is expected
forInit(p) ==
  IF NotValue(p, ";")
  THEN IF peek(p).type \in {"type", "qualifier"} THEN parseVariableDeclaration(p)
       ELSE forInitExpression(parseExpression(p))
  ELSE Parsed(NullNode, advance(p))

parseForStatement(p) ==
  forTest(forInit(expectValue(advance(p), "(", "Expected '(' after 'for'").p))

expressionStatementOf(r) ==
  IF r.node = NullNode
  THEN Parsed(NullNode, IF HasToken(r.p) THEN advance(r.p) ELSE r.p)
  ELSE Parsed(ExpressionStatement(r.node),
              expectValue(r.p, ";", "Expected ';' after expression").p)

parseExpressionStatement(p) == expressionStatementOf(parseExpression(p))

parseStatement(p) ==
  IF Halted(p) \/ ~HasToken(p) THEN Parsed(NullNode, p)
  ELSE IF StartsSpecifiers(peek(p)) THEN parseVariableDeclaration(p)
  ELSE IF peek(p).value = "return" THEN parseReturnStatement(p)
  ELSE IF peek(p).value = "if" THEN parseIfStatement(p)
  ELSE IF peek(p).value = "for" THEN parseForStatement(p)
  ELSE IF peek(p).value = "while" THEN parseWhileStatement(p)
  ELSE IF peek(p).value = "{" THEN parseBlockStatement(p)
  ELSE parseExpressionStatement(p)

(***************************************************************************)
(* Functions, typedefs and directives                                      *)
(***************************************************************************)
RECURSIVE parameterLoop(_, _)

\* if (peek() && peek().value === ",") advance(); else break;
parameterNext(params, before, p) ==
  IF IsValue(p, ",") THEN parameterLoop(params, Progress(before, advance(p)))
  ELSE ParsedList(params, p)

parameterNode(typeSpecifiers, name, isArray, isPointer) ==
  [type |-> "Parameter", paramType |-> typeSpecifiers, name |-> name,
   isArray |-> isArray, isPointer |-> isPointer]

\* the rest of an iteration: no parameter is pushed without a name
parameterName(params, before, typeSpecifiers, isPointer, n) ==
  IF n.token = NoToken THEN parameterNext(params, before, n.p)
  ELSE IF IsValue(n.p, "[")
  THEN parameterNext(
         Append(params, parameterNode(typeSpecifiers, n.token.value, TRUE, isPointer)),
         before,
         arrayDimension(advance(n.p), "Expected ']' after array parameter"))
  ELSE parameterNext(
         Append(params, parameterNode(typeSpecifiers, n.token.value, FALSE, isPointer)),
         before, n.p)

parameterType(params, before, s) ==
  IF s.node = NullNode
  THEN ParsedList(params, syntaxError(s.p, "Expected parameter type"))
  ELSE parameterName(params, before, s.node, IsValue(s.p, "*"),
         expect(IF IsValue(s.p, "*") THEN advance(s.p) ELSE s.p,
                "identifier", "Expected parameter name"))

\* while (peek() && peek().value !== ")")
parameterLoop(params, p) ==
  IF ~Halted(p) /\ NotValue(p, ")")
  THEN parameterType(params, p, parseDeclarationSpecifiers(p))
  ELSE ParsedList(params, p)

parametersEnd(l) ==
  ParsedList(l.nodes, expectValue(l.p, ")", "Expected ')' after function parameters").p)

\* after the '(': `void` followed by ')' is the empty list, and `void`
\* followed by anything else is put back (current--)
parametersAfterParen(p) ==
  IF IsType(p, "type") /\ peek(p).value = "void" /\ IsValue(advance(p), ")")
  THEN ParsedList(<<>>, advance(advance(p)))
  ELSE IF IsValue(p, ")") THEN ParsedList(<<>>, advance(p))
  ELSE parametersEnd(parameterLoop(<<>>, p))

parseParameters(p) ==
  IF IsValue(p, "(") THEN parametersAfterParen(advance(p))
  ELSE ParsedList(<<>>, syntaxError(p, "Expected '(' for function parameters"))

parseFunctionBody(p) == parseBlockStatement(p)

functionNode(returnType, isPointerReturn, name, params, b) ==
  Parsed([type |-> "FunctionDeclaration", id |-> Identifier(name),
          returnType |-> returnType, isPointerReturn |-> isPointerReturn,
          params |-> params, body |-> b.node],
         b.p)

\* function body or forward declaration
functionBody(returnType, isPointerReturn, name, l) ==
  functionNode(returnType, isPointerReturn, name, l.nodes,
    IF IsValue(l.p, "{") THEN parseFunctionBody(l.p)
    ELSE Parsed(NullNode,
                expectValue(l.p, ";", "Expected ';' after function forward declaration").p))

functionName(returnType, isPointerReturn, n) ==
  IF n.token = NoToken THEN Parsed(NullNode, n.p)
  ELSE functionBody(returnType, isPointerReturn, n.token.value, parseParameters(n.p))

functionOf(s) ==
  IF s.node = NullNode
  THEN Parsed(NullNode, syntaxError(s.p, "Expected function return type"))
  ELSE functionName(s.node, IsValue(s.p, "*"),
         expect(IF IsValue(s.p, "*") THEN advance(s.p) ELSE s.p,
                "identifier", "Expected function name"))

parseFunctionDeclaration(p) == functionOf(parseDeclarationSpecifiers(p))

typedefName(typeSpecifiers, n) ==
  IF n.token = NoToken THEN Parsed(NullNode, n.p)
  ELSE Parsed([type |-> "Typedef", typeSpecifiers |-> typeSpecifiers,
               id |-> Identifier(n.token.value)],
              expectValue(n.p, ";", "Expected ';' after typedef").p)

typedefOf(s) ==
  IF s.node = NullNode
  THEN Parsed(NullNode, syntaxError(s.p, "Expected type specifier after typedef"))
  ELSE typedefName(s.node, expect(s.p, "identifier", "Expected identifier for typedef name"))

parseTypedef(p) == typedefOf(parseDeclarationSpecifiers(advance(p)))

\* headerToken.value.replace(/['"]/g, ""), on the string tokens of the inputs
Unquoted(value) == IF value = "'h'" THEN "h" ELSE value

RECURSIVE headerLoop(_, _)
\* while (peek() && peek().value !== ">") { headerName += peek().value; advance(); }
headerLoop(headerName, p) ==
  IF ~Halted(p) /\ NotValue(p, ">")
  THEN headerLoop(headerName \o peek(p).value, Progress(p, advance(p)))
  ELSE [name |-> headerName, p |-> p]

includeNode(header, p) ==
  Parsed([type |-> "Include", header |-> header, system |-> TRUE], p)

systemHeader(h) ==
  IF IsValue(h.p, ">") THEN includeNode(h.name, advance(h.p))
  ELSE Parsed(NullNode, syntaxError(h.p, "Expected '>' after header name"))

\* after '#include' is consumed
includeHeader(p) ==
  IF ~HasToken(p)
  THEN Parsed(NullNode, syntaxError(p, "Expected header name after #include"))
  ELSE IF peek(p).value = "<" THEN systemHeader(headerLoop("", advance(p)))
  ELSE IF peek(p).type = "string" THEN includeNode(Unquoted(peek(p).value), advance(p))
  ELSE Parsed(NullNode,
              syntaxError(p, "Invalid include directive, expected <header> or \"header\""))

parseInclude(p) == includeHeader(advance(p))

\* peek().value.includes("\n"), on the token values of the inputs
HasNewline(value) == value = "\n"

RECURSIVE skipLine(_)
\* while (peek() && !peek().value.includes("\n")) advance();
skipLine(p) ==
  IF ~Halted(p) /\ HasToken(p) /\ ~HasNewline(peek(p).value)
  THEN skipLine(Progress(p, advance(p)))
  ELSE p

parsePreprocessorDirective(p) ==
  IF peek(p).value = "#include" THEN parseInclude(p)
  ELSE IF peek(p).value = "#define"
  THEN Parsed([type |-> "PreprocessorDirective", directive |-> "define"],
              skipLine(advance(p)))
  ELSE Parsed(NullNode,
              advance(syntaxError(p, "Unrecognized preprocessor directive: "
                                       \o peek(p).value)))

(***************************************************************************)
(* parseProgram: one iteration of the top-level loop                       *)
(***************************************************************************)
\* token.value.startsWith("#"), on the token values of the inputs
StartsWithHash(value) == value \in {"#include", "#define", "#pragma"}

\* the look-ahead of the declaration branch: whether a '(' follows the
\* specifiers, the identifier and an optional '*'
FunctionAhead(p) ==
  IsValue(IF IsValue(advance(p), "*") THEN advance(advance(p)) ELSE advance(p), "(")

\* the declaration branch; `current = savedPosition` restarts from p
topLevelDeclaration(p, s) ==
  IF s.node /= NullNode /\ IsType(s.p, "identifier")
  THEN IF FunctionAhead(s.p) THEN parseFunctionDeclaration(p)
       ELSE parseVariableDeclaration(p)
  ELSE Parsed(NullNode, advance(syntaxError(p, "Unrecognized declaration")))

\* the report of a token no branch takes, without the skip
reportUnexpected(p) ==
  syntaxError(p, "Unexpected token at program level: " \o peek(p).value)

\* the report and the skip of a token no branch takes
skipUnexpected(p) ==
  advance(syntaxError(p, "Unexpected token at program level: " \o peek(p).value))

\* the try block of one iteration
topLevel(p) ==
  IF StartsWithHash(peek(p).value) THEN parsePreprocessorDirective(p)
  ELSE IF peek(p).value = "typedef" THEN parseTypedef(p)
  ELSE IF StartsSpecifiers(peek(p))
  THEN topLevelDeclaration(p, parseDeclarationSpecifiers(p))
  ELSE IF peek(p).type = "identifier" THEN parseStatement(p)
  ELSE IF peek(p).value = "return" THEN parseReturnStatement(p)
  ELSE IF peek(p).value = "{" THEN parseBlockStatement(p)
  ELSE IF peek(p).value = "}" THEN Parsed(NullNode, advance(p))
  ELSE Parsed(NullNode, skipUnexpected(p))

\* catch (e): the error is recorded and one token is skipped; what the
\* iteration was building is dropped
caught(r) ==
  IF Thrown(r.p)
  THEN Parsed(NullNode,
              [r.p EXCEPT !.thrown = Null,
                          !.errors = Append(@, [message |-> "Parser error: " \o r.p.thrown]),
                          !.current = @ + 1])
  ELSE r

\* one iteration of while (current < tokens.length)
iteration(p) == caught(topLevel(p))

(***************************************************************************)
(* parser(tokens): the loop of parseProgram, iteration by iteration.       *)
(***************************************************************************)
\* the state of a call parser(toks) before the first iteration
ParseStart(toks) ==
  /\ parseTokens' = toks
  /\ parse' = NewParser(toks)
  /\ body' = <<>>
  /\ parsePc' = "loop"
  /\ parseResult' = NullNode

\* one iteration; if (x) ast.body.push(x)
ParseIteration ==
  /\ parsePc = "loop"
  /\ HasToken(parse)
  /\ ~parse.stalled
  /\ \E r \in {iteration(parse)} :
       /\ parse' = Progress(parse, r.p)
       /\ body' = IF r.node /= NullNode THEN Append(body, r.node) ELSE body
  /\ UNCHANGED <<parseTokens, parsePc, parseResult, genVars, semVars, uiVars, typeVars>>

\* return { ast, errors }
ParseReturn ==
  /\ parsePc = "loop"
  /\ ~HasToken(parse)
  /\ parseResult' = [ast |-> Program(body), errors |-> parse.errors]
  /\ parsePc' = "done"
  /\ UNCHANGED <<parseTokens, parse, body, genVars, semVars, uiVars, typeVars>>

(***************************************************************************)
(* Inputs of the parser (specification SpecParse): every token sequence of *)
(* up to MaxTokens tokens over two alphabets, at the top level, in a       *)
(* function body and in a parameter list; and the functions returning an   *)
(* expression of up to MaxOperators operators.                             *)
(***************************************************************************)
MaxTokens == 3

MaxOperators == 3

Punctuation(value) == Token("punctuation", value)

Operator(value) == Token("operator", value)

Keyword(value) == Token("keyword", value)

Ident(name) == Token("identifier", name)

\* the tokens of statements and expressions
StatementTokens ==
  { Token("type", "int"), Ident("x"), Token("number", "1"),
    Punctuation("("), Punctuation(")"), Punctuation("{"), Punctuation("}"),
    Punctuation(";"), Punctuation(","), Operator("="), Operator("+"),
    Keyword("if"), Keyword("else"), Keyword("for"), Keyword("return") }

\* the tokens of directives and declarations
DeclarationTokens ==
  { Token("preprocessor", "#include"), Token("preprocessor", "#define"),
    Token("preprocessor", "#pragma"), Operator("<"), Operator(">"),
    Token("string", "'h'"), Token("whitespace", "\n"), Token("comment", "/*c*/"),
    Keyword("typedef"), Keyword("struct"), Keyword("while"),
    Token("type", "void"), Token("qualifier", "const"), Ident("x"),
    Operator("*"), Punctuation("["), Punctuation("]"),
    Punctuation("{"), Punctuation("}"), Punctuation(";"), Punctuation("(") }

\* int f ( ) {     and     int f (
FunctionHead ==
  << Token("type", "int"), Ident("f"), Punctuation("("), Punctuation(")"),
     Punctuation("{") >>

ParameterHead == << Token("type", "int"), Ident("f"), Punctuation("(") >>

Heads == { <<>>, FunctionHead, ParameterHead }

ShortPrograms ==
  { head \o rest : head \in Heads,
                   rest \in {<<>>} \cup SeqsUpTo(StatementTokens, MaxTokens)
                              \cup SeqsUpTo(DeclarationTokens, MaxTokens) }

BinaryOperators ==
  {"||", "&&", "==", "!=", "<", ">", "<=", ">=", "+", "-", "*", "/", "%"}

OperandNames == <<"a", "b", "c", "d", "e">>

\* a op1 b op2 c ...
RECURSIVE ExpressionOf(_, _)
ExpressionOf(ops, i) ==
  IF i > Len(ops) THEN <<Ident(OperandNames[i])>>
  ELSE <<Ident(OperandNames[i]), Operator(ops[i])>> \o ExpressionOf(ops, i + 1)

Expressions ==
  { ExpressionOf(ops, 1) :
      ops \in UNION { [1 .. k -> BinaryOperators \cup {"="}] : k \in 1 .. MaxOperators } }

\* int f ( ) { return <expression> ; }
Returning(expression) ==
  FunctionHead \o <<Keyword("return")>> \o expression
    \o <<Punctuation(";"), Punctuation("}")>>

ExpressionPrograms == { Returning(e) : e \in Expressions }

\* the expression between 'return' and ';' of such a function
ReturnedExpression(toks) == SubSeq(toks, Len(FunctionHead) + 2, Len(toks) - 2)

\* declarations with a pointer declarator:
\*   int * p ;     int * p = 1 ;     int * f ( ) { }     int * f ( ) ;
PointerVariables ==
  { << Token("type", "int"), Operator("*"), Ident("p"), Punctuation(";") >>,
    << Token("type", "int"), Operator("*"), Ident("p"), Operator("="),
       Token("number", "1"), Punctuation(";") >> }

PointerFunctions ==
  { << Token("type", "int"), Operator("*"), Ident("f"), Punctuation("("),
       Punctuation(")"), Punctuation("{"), Punctuation("}") >>,
    << Token("type", "int"), Operator("*"), Ident("f"), Punctuation("("),
       Punctuation(")"), Punctuation(";") >> }

\* int f ( ) { <declaration> }
InBlock(declaration) == FunctionHead \o declaration \o <<Punctuation("}")>>

PointerPrograms ==
  PointerVariables \cup PointerFunctions \cup { InBlock(d) : d \in PointerVariables }

InitParse == GenIdle /\ SemIdle /\ UIInit /\ TypesIdle /\ ParseIdle

\* the call parser(tokens)
ParseCall ==
  /\ parsePc = "idle"
  /\ \E toks \in ShortPrograms \cup ExpressionPrograms \cup PointerPrograms :
       ParseStart(toks)
  /\ UNCHANGED <<genVars, semVars, uiVars, typeVars>>

NextParse == ParseCall \/ ParseIteration \/ ParseReturn

\* ENABLED <<ParseIteration \/ ParseReturn>>_vars, from the guards of the two
\* actions: each of them changes parse or parsePc whenever its guard holds
CanStep == parsePc = "loop" /\ (HasToken(parse) => ~parse.stalled)

\* WF_vars(ParseIteration \/ ParseReturn) written out with that enabling
\* condition: once called, parseProgram runs on, no step of it waits for
\* anything (the code is synchronous and single-threaded)
FairParse == []<>(~CanStep) \/ []<><<ParseIteration \/ ParseReturn>>_vars

SpecParse == InitParse /\ [][NextParse]_vars /\ FairParse

(***************************************************************************)
(* Properties of the parser (specification SpecParse).                     *)
(***************************************************************************)
IsCaught(error) == error.message = "Parser error: " \o CannotRead("location")

\* C16: for every token sequence parser(tokens) terminates: no iteration
\* of the top-level loop or of an inner loop goes on to the next without
\* having consumed a token, no exception leaves an iteration, and the loop
\* ends with the return of a Program and a list of errors.
C16_ParseTotality ==
  /\ [](parsePc \in {"loop", "done"} =>
          /\ ~parse.stalled
          /\ parse.thrown = Null
          /\ parse.current <= Len(parseTokens) + 1
          /\ parsePc = "done" =>
               /\ parseResult.ast.type = "Program"
               /\ \A i \in 1 .. Len(parseResult.errors) :
                    "message" \in DOMAIN parseResult.errors[i])
  /\ (parsePc = "loop") ~> (parsePc = "done")

\* an exception thrown inside an iteration (if (x) ; has no consequent)
\* was caught, the loop went on and the parser returned
C16_Witness ==
  /\ parsePc = "done"
  /\ Len(parseTokens) > Len(FunctionHead)
  /\ \E i \in 1 .. Len(parseResult.errors) : IsCaught(parseResult.errors[i])

\* the precedence levels of the reference parse, loosest first
ReferenceLevel(op) ==
  CASE op = "||" -> 1
    [] op = "&&" -> 2
    [] op \in {"==", "!="} -> 3
    [] op \in {"<", ">", "<=", ">="} -> 4
    [] op \in {"+", "-"} -> 5
    [] op \in {"*", "/", "%"} -> 6

\* the positions of the operators of an expression: the even ones
OperatorPositions(e) == { i \in 1 .. Len(e) : i % 2 = 0 }

RECURSIVE Reference(_)
\* the reference parse: an expression with an assignment splits at its first
\* '=' (assignment binds loosest, to the right); any other splits at the
\* last of its operators of the loosest level (binary operators bind to the
\* left)
Reference(e) ==
  IF Len(e) = 1 THEN Identifier(e[1].value)
  ELSE LET assignments == { i \in OperatorPositions(e) : e[i].value = "=" }
           loosest == CHOOSE l \in 1 .. 6 :
                        /\ \E i \in OperatorPositions(e) : ReferenceLevel(e[i].value) = l
                        /\ \A i \in OperatorPositions(e) : ReferenceLevel(e[i].value) >= l
           Max(S) == CHOOSE i \in S : \A j \in S : j <= i
           Min(S) == CHOOSE i \in S : \A j \in S : i <= j
           at == IF assignments /= {} THEN Min(assignments)
                 ELSE Max({ i \in OperatorPositions(e) : ReferenceLevel(e[i].value) = loosest })
           left == Reference(SubSeq(e, 1, at - 1))
           right == Reference(SubSeq(e, at + 1, Len(e)))
       IN IF assignments /= {} THEN AssignmentExpression(left, right)
          ELSE BinaryExpression(e[at].value, left, right)

\* C17: for every expression built from the binary operators and '=', the
\* AST the parser returns is the reference parse: precedence rises from ||
\* through &&, equality, relational and additive to multiplicative, the
\* binary operators are left-associative, and assignment binds loosest and
\* is right-associative.
C17_ParsesAsReference ==
  (parsePc = "done" /\ parseTokens \in ExpressionPrograms) =>
    \E e \in {ReturnedExpression(parseTokens)} :
      /\ parseTokens = Returning(e)
      /\ parseResult =
           [ast |-> Program(<<FuncDef("f", <<>>, <<ReturnStatement(Reference(e))>>)>>),
            errors |-> <<>>]

\* a = b - c - d is parsed as a = ((b - c) - d)
C17_Witness ==
  /\ parsePc = "done"
  /\ parseTokens = Returning(ExpressionOf(<<"=", "-", "-">>, 1))
  /\ parseResult.ast.body[1].body.body[1].argument =
       AssignmentExpression(Identifier("a"),
         BinaryExpression("-",
           BinaryExpression("-", Identifier("b"), Identifier("c")),
           Identifier("d")))

IsUnused(name, diagnostic) == diagnostic.message = "Unused variable '" \o name \o "'"

\* C21 (as stated): a variable that is only ever the left-hand side of
\* assignments is absent from variableUses after all phases and receives the
\* "Unused variable" warning, when it is a global as well as when it is a
\* local.
C21_WriteOnlyIsUnused ==
  (semPc = "done" /\ semAst \in WriteOnlyPrograms) =>
    /\ "x" \notin sem.variableUses
    /\ \E i \in 1 .. Len(semResult.errors) : IsUnused("x", semResult.errors[i])

\* a run of TAC without a label or a jump: the code of an expression
IsPlain(tac) ==
  \A i \in 1 .. Len(tac) : tac[i].operation \notin {"LABEL", "GOTO", "IF_FALSE"}

IsLabelOf(instruction, label) == IsLabel(instruction) /\ instruction.label = label

IsGoto(instruction, label) ==
  /\ instruction.operation = "GOTO"
  /\ instruction.arg1 = Null
  /\ instruction.arg2 = Null
  /\ instruction.result = label

\* tac[i] is IF_FALSE c -> label after the code of c, which starts at `from`
IsTest(tac, from, i, label) ==
  /\ tac[i].operation = "IF_FALSE"
  /\ tac[i].result = label
  /\ tac[i].arg2 = Null
  /\ IsPlain(SubSeq(tac, from, i - 1))
  /\ i > from => tac[i].arg1 = tac[i - 1].result

RECURSIVE Follows(_, _)
RECURSIVE FollowsAll(_, _)
\* the TAC `tac` is the skeleton of the statement, nested statements
\* contained whole between the labels of the statement around them
Follows(stmt, tac) ==
  LET n == Len(tac)
  IN CASE stmt.type = "IfStatement" /\ stmt.alternate = NullNode ->
            /\ n >= 2
            /\ IsLabel(tac[n])
            /\ \E i \in 1 .. n - 1 :
                 /\ IsTest(tac, 1, i, tac[n].label)
                 /\ Follows(stmt.consequent, SubSeq(tac, i + 1, n - 1))
       [] stmt.type = "IfStatement" /\ stmt.alternate /= NullNode ->
            /\ n >= 4
            /\ IsLabel(tac[n])
            /\ \E i \in 1 .. n - 3 : \E j \in i + 1 .. n - 2 :
                 /\ IsLabel(tac[j + 1])
                 /\ tac[j + 1].label /= tac[n].label
                 /\ IsTest(tac, 1, i, tac[j + 1].label)
                 /\ IsGoto(tac[j], tac[n].label)
                 /\ Follows(stmt.consequent, SubSeq(tac, i + 1, j - 1))
                 /\ Follows(stmt.alternate, SubSeq(tac, j + 2, n - 1))
       [] stmt.type = "WhileStatement" ->
            /\ n >= 4
            /\ IsLabel(tac[1])
            /\ IsLabel(tac[n])
            /\ tac[1].label /= tac[n].label
            /\ IsGoto(tac[n - 1], tac[1].label)
            /\ \E i \in 2 .. n - 2 :
                 /\ IsTest(tac, 2, i, tac[n].label)
                 /\ Follows(stmt.body, SubSeq(tac, i + 1, n - 2))
       [] stmt.type = "ForStatement" ->
            /\ n >= 4
            /\ IsLabel(tac[n])
            /\ \E a \in 1 .. n - 3 : \E c \in a + 1 .. n - 2 :
                 /\ IsLabel(tac[a])
                 /\ IsLabel(tac[c])
                 /\ Cardinality({tac[a].label, tac[c].label, tac[n].label}) = 3
                 /\ IsPlain(SubSeq(tac, 1, a - 1))
                 /\ (stmt.init = NullNode) => a = 1
                 /\ IsPlain(SubSeq(tac, c + 1, n - 2))
                 /\ (stmt.update = NullNode) => c = n - 2
                 /\ IsGoto(tac[n - 1], tac[a].label)
                 /\ IF stmt.test = NullNode
                    THEN Follows(stmt.body, SubSeq(tac, a + 1, c - 1))
                    ELSE \E i \in a + 1 .. c - 1 :
                           /\ IsTest(tac, a + 1, i, tac[n].label)
                           /\ Follows(stmt.body, SubSeq(tac, i + 1, c - 1))
       [] stmt.type = "BlockStatement" -> FollowsAll(stmt.body, tac)
       [] stmt.type \in {"BreakStatement", "ContinueStatement"} ->
            n = 0 \/ (n = 1 /\ tac[1].operation = "GOTO")
       [] OTHER -> IsPlain(tac)

\* the statements of a block, one after the other
FollowsAll(stmts, tac) ==
  IF Len(stmts) = 0 THEN Len(tac) = 0
  ELSE \E k \in 0 .. Len(tac) :
         /\ Follows(Head(stmts), SubSeq(tac, 1, k))
         /\ FollowsAll(Tail(stmts), SubSeq(tac, k + 1, Len(tac)))

\* the programs int main() { <statements> } and the TAC of main's body,
\* between FUNCTION_START main and FUNCTION_END main
IsMainOnly(program) ==
  /\ Len(program.body) = 1
  /\ program.body[1].type = "FunctionDeclaration"
  /\ program.body[1].body /= NullNode

BodyCode(tac) == SubSeq(tac, 3, Len(tac) - 1)

\* C22: for every if, if-else, while and for statement the raw TAC follows
\* the skeleton in order (if: IF_FALSE c -> Lelse; S; LABEL Lelse; if-else:
\* IF_FALSE c -> Lelse; S; GOTO Lend; LABEL Lelse; T; LABEL Lend; while:
\* LABEL Lstart; IF_FALSE c -> Lend; S; GOTO Lstart; LABEL Lend; for: init;
\* LABEL Lstart; IF_FALSE c -> Lend when there is a test; S; LABEL
\* Lcontinue; update; GOTO Lstart; LABEL Lend), the code of the condition
\* after Lstart and nested statements contained between their own labels.
C22_FollowsSkeleton ==
  (genPc = "done" /\ genAst \in NestPrograms \cup ForPrograms) =>
    /\ IsMainOnly(genAst)
    /\ Len(ctx.code) >= 3
    /\ Follows(genAst.body[1].body, BodyCode(ctx.code))

\* a for loop with a test and an update around an if-else has been generated
C22_Witness ==
  /\ genPc = "done"
  /\ genAst \in NestPrograms
  /\ genAst.body[1].body.body[1].type = "ForStatement"
  /\ genAst.body[1].body.body[1].test /= NullNode
  /\ genAst.body[1].body.body[1].body.type = "IfStatement"
  /\ genAst.body[1].body.body[1].body.alternate /= NullNode
  /\ Follows(genAst.body[1].body, BodyCode(ctx.code))

\* the call of a program of CallGenPrograms
TheCall(program) ==
  LET first == program.body[1].body.body[1]
  IN IF first.type = "ReturnStatement" THEN first.argument ELSE first.expression

\* the operand an argument of CallArgs is lowered to
OperandOf(arg) == IF arg.type = "Identifier" THEN arg.name ELSE arg.value

\* from place `at` the TAC holds PARAM per argument in source order, then
\* CALL name n -> t0, and the formatted line reads CALL <name> <n> -> t0
IsCallAt(tac, lines, at, call) ==
  LET n == Len(call.arguments)
  IN /\ Len(tac) >= at + n
     /\ \A i \in 1 .. n :
          /\ tac[at + i - 1].operation = "PARAM"
          /\ tac[at + i - 1].arg1 = OperandOf(call.arguments[i])
     /\ tac[at + n].operation = "CALL"
     /\ tac[at + n].arg1 = call.callee.name
     /\ tac[at + n].arg2 = ToStr(n)
     /\ tac[at + n].result = "t0"
     /\ lines[at + n] = PadStart3(ToStr(at + n - 1)) \o ": CALL " \o call.callee.name
                          \o " " \o ToStr(n) \o " -> t0"

\* C23 (as stated): for every call with n >= 0 arguments the generator emits
\* one PARAM per argument in source order and then CALL, arg1 the function
\* name, arg2 the argument count n (also when n = 0), result a fresh
\* temporary; the formatted line reads CALL <name> <n> -> tN.
C23_CallCarriesCount ==
  (genPc = "done" /\ genAst \in CallGenPrograms) =>
    IsCallAt(ctx.code, genResult.intermediateCode, 3, TheCall(genAst))

(***************************************************************************)
(* getExpressionType on a binary expression (specification SpecBinary):    *)
(* a and b are globals of two declared types and a <op> b is typed.        *)
(***************************************************************************)
ScalarTypes == { <<"int">>, <<"long">>, <<"float">>, <<"double">> }

\* the declared types of the operands: the arithmetic types, pointers to
\* them, and char*
OperandTypes == ScalarTypes \cup { Append(t, "*") : t \in ScalarTypes } \cup { <<"char", "*">> }

ArithmeticOperators == {"+", "-", "*", "/", "%"}

\* the symbol of a global variable of the type
GlobalOf(name, type) ==
  [name |-> name, type |-> type, scope |-> "global", initialized |-> TRUE, line |-> 1]

\* the analysis after `<binLeft> a; <binRight> b;` at the top level
OperandsDeclared(leftType, rightType) ==
  [NewAnalysis(Clock(0, 0, TRUE, 0)) EXCEPT
     !.symbolTable = Put(Put(<<>>, getSymbolKey("a", "global"), GlobalOf("a", leftType)),
                         getSymbolKey("b", "global"), GlobalOf("b", rightType))]

BinaryStart(leftType, rightType, op) ==
  /\ cmpTarget = <<>>
  /\ cmpSource = <<>>
  /\ cmpThird = <<>>
  /\ compat = NullNode
  /\ typePc = "operands"
  /\ binLeft = leftType
  /\ binRight = rightType
  /\ binOp = op
  /\ binType = <<>>

\* getExpressionType(a <op> b, "global", ["global"])
TypeBinary ==
  /\ typePc = "operands"
  /\ binType' = getExpressionType(
                  BinaryExpression(binOp, Identifier("a"), Identifier("b")),
                  "global", GlobalStack, OperandsDeclared(binLeft, binRight)).type
  /\ typePc' = "typed"
  /\ UNCHANGED <<cmpTarget, cmpSource, cmpThird, compat, binLeft, binRight, binOp,
                 genVars, semVars, uiVars, parseVars>>

InitBinary ==
  /\ GenIdle
  /\ SemIdle
  /\ UIInit
  /\ ParseIdle
  /\ \E l \in OperandTypes, r \in OperandTypes, op \in ArithmeticOperators :
       BinaryStart(l, r, op)

NextBinary == TypeBinary

SpecBinary == InitBinary /\ [][NextBinary]_vars

\* the place of a type in the order double > float > long > int
PromotionRank(t) ==
  CASE t = <<"double">> -> 4
    [] t = <<"float">> -> 3
    [] t = <<"long">> -> 2
    [] t = <<"int">> -> 1

\* C24 (as stated): the type of a + or - expression in which one operand has
\* a pointer type is that pointer type, whatever the pointee (double*,
\* float* and long* included); for non-pointer operands the type of an
\* arithmetic expression is the highest of the operand types in the order
\* double > float > long > int.
C24_PointerArithmeticKeepsPointer ==
  typePc = "typed" =>
    /\ (binOp \in {"+", "-"} /\ IsPointerType(binLeft)) => binType = binLeft
    /\ (binOp \in {"+", "-"} /\ ~IsPointerType(binLeft) /\ IsPointerType(binRight)) =>
         binType = binRight
    /\ (binLeft \in ScalarTypes /\ binRight \in ScalarTypes) =>
         binType = IF PromotionRank(binLeft) >= PromotionRank(binRight)
                   THEN binLeft ELSE binRight

\* C25 (as stated): a well-formed top-level declaration with a pointer
\* declarator is parsed without diagnostics: int *p; into the
\* VariableDeclaration that the same tokens give inside a block, its
\* declarator with isPointer = true, and int *f() ... into a
\* FunctionDeclaration with isPointerReturn = true.
C25_TopLevelPointerDeclarations ==
  parsePc = "done" =>
    /\ parseTokens \in PointerVariables =>
         /\ parseResult.errors = <<>>
         /\ parseResult.ast.body = <<parseStatement(NewParser(parseTokens)).node>>
         /\ parseResult.ast.body[1].type = "VariableDeclaration"
         /\ parseResult.ast.body[1].declarations[1].isPointer
    /\ parseTokens \in PointerFunctions =>
         /\ parseResult.errors = <<>>
         /\ Len(parseResult.ast.body) = 1
         /\ parseResult.ast.body[1].type = "FunctionDeclaration"
         /\ parseResult.ast.body[1].isPointerReturn

\* the raw TAC generateCode leaves for a program, from a fresh context
RawOf(program) == generateCode(program, emitInclude(program, NewContext)).code

IsPrefixOf(short, long) ==
  /\ Len(short) <= Len(long)
  /\ SubSeq(long, 1, Len(short)) = short

\* the program without the last statement of main's body
WithoutLast(program) ==
  LET stmts == program.body[1].body.body
  IN MainOf(SubSeq(stmts, 1, Len(stmts) - 1))

\* up to its closing FUNCTION_END, the raw TAC of the program without its
\* last statement is the beginning of the raw TAC of the whole program
GrowsByAppends(program, raw) ==
  (/\ IsMainOnly(program)
   /\ program.body[1].id.name = "main"
   /\ Len(program.body[1].params) = 0
   /\ program.body[1].body.body /= <<>>) =>
    LET shorter == RawOf(WithoutLast(program))
    IN IsPrefixOf(SubSeq(shorter, 1, Len(shorter) - 1), raw)

C27_PassesReported ==
  (genPc = "done" /\ ~Thrown(ctx)) =>
    /\ passes \in 1 .. maxPasses
    /\ passes < maxPasses => ~changed
    /\ genResult.statistics.optimizationPasses = passes

\* what the stages compute from a source text
AstOf(text) == parser(lexer(text))

AnalysesOf(text) ==
  { semanticAnalyzer(AstOf(text).ast, TextOf(text), clock) : clock \in Clocks }

\* the stored results are empty or those of the current source text
ResultsAreCurrent ==
  /\ ast /= NullNode => (code /= "" /\ ast = AstOf(code).ast)
  /\ syntaxErrors /= <<>> => (code /= "" /\ syntaxErrors = AstOf(code).errors)
  /\ symbolTable /= <<>> =>
       (code /= "" /\ \E r \in AnalysesOf(code) : symbolTable = r.symbolTable)
  /\ semanticErrors /= <<>> =>
       (code /= "" /\ \E r \in AnalysesOf(code) : semanticErrors = r.errors)
  /\ codeGenResult /= NullNode =>
       (code /= "" /\ codeGenResult = codeGenerator(AstOf(code).ast))

FlagsAreOrdered ==
  /\ analysisState.codegen => analysisState.semantic
  /\ analysisState.semantic => analysisState.syntax
  /\ analysisState.syntax => analysisState.lexical

\* C28 (as stated): in every state the UI reaches by edits of the source
\* (clearing it included) and button presses, the stored AST, syntax errors,
\* symbol table, semantic errors and code-generation result are empty or
\* were computed from the current source text, and the completion flags are
\* ordered: codegen => semantic => syntax => lexical.
C28_ResultsNeverStale == ResultsAreCurrent /\ FlagsAreOrdered

(***************************************************************************)
(* The meaning of straight-line TAC: ASSIGN a -> r stores the value of a  *)
(* in r, ADD/SUB/MUL a b -> r the result of the operation; LABEL, DECLARE, *)
(* FUNCTION_START and FUNCTION_END store nothing.                          *)
(***************************************************************************)
ProgramVariables == { "x", "y" }

Temporaries == { "t" \o ToStr(n) : n \in 0 .. 3 }

Locations == ProgramVariables \cup Temporaries

IsOperand(arg) == arg \in NumStrs \cup Locations

IsExecutable(tac) ==
  \A i \in 1 .. Len(tac) :
    CASE tac[i].operation = "ASSIGN" ->
           IsOperand(tac[i].arg1) /\ tac[i].result \in Locations
      [] tac[i].operation \in {"ADD", "SUB", "MUL"} ->
           IsOperand(tac[i].arg1) /\ IsOperand(tac[i].arg2) /\ tac[i].result \in Locations
      [] OTHER -> tac[i].operation \in {"LABEL", "DECLARE", "FUNCTION_START", "FUNCTION_END"}

ValueOf(arg, env) == IF arg \in NumStrs THEN NumOf(arg) ELSE env[arg]

Execute(instruction, env) ==
  CASE instruction.operation = "ASSIGN" ->
         [env EXCEPT ![instruction.result] = ValueOf(instruction.arg1, env)]
    [] instruction.operation = "ADD" ->
         [env EXCEPT ![instruction.result] =
            ValueOf(instruction.arg1, env) + ValueOf(instruction.arg2, env)]
    [] instruction.operation = "SUB" ->
         [env EXCEPT ![instruction.result] =
            ValueOf(instruction.arg1, env) - ValueOf(instruction.arg2, env)]
    [] instruction.operation = "MUL" ->
         [env EXCEPT ![instruction.result] =
            ValueOf(instruction.arg1, env) * ValueOf(instruction.arg2, env)]
    [] OTHER -> env

RECURSIVE Run(_, _)
Run(tac, env) == IF tac = <<>> THEN env ELSE Run(Tail(tac), Execute(Head(tac), env))

InitialValues == { 0, 5 }

\* the initial valuations: the program variables hold any values
Valuations ==
  { [l \in Locations |-> IF l = "x" THEN vx ELSE IF l = "y" THEN vy ELSE 0] :
      vx \in InitialValues, vy \in InitialValues }

SameMeaning(tac, other) ==
  \A env \in Valuations :
    \A v \in ProgramVariables : Run(tac, env)[v] = Run(other, env)[v]

\* C29 (as stated): the optimizer preserves the meaning of straight-line
\* TAC: from every initial valuation, running the optimized sequence leaves
\* the same final values in all program variables as running the raw one.
C29_OptimizerPreservesMeaning ==
  (/\ genPc = "done"
   /\ genAst \in StraightPrograms
   /\ ~Thrown(ctx)
   /\ IsExecutable(ctx.code)) =>
    /\ IsExecutable(optimized)
    /\ SameMeaning(ctx.code, optimized)

IsJump(instruction) == instruction.operation \in {"GOTO", "IF_FALSE"}

\* every GOTO and IF_FALSE of the sequence targets a LABEL of the sequence
NoDanglingJumps(tac) ==
  \A i \in 1 .. Len(tac) :
    IsJump(tac[i]) =>
      \E j \in 1 .. Len(tac) :
        tac[j].operation = "LABEL" /\ tac[j].label = tac[i].result

\* C30: once generation has completed, in the raw TAC and in the optimized
\* TAC (after every optimizer pass) the target of every GOTO and IF_FALSE is
\* the label of a LABEL instruction of the same sequence, and the loopStack
\* is empty: every push for a while or for loop was matched by a pop.
C30_NoDanglingJumps ==
  (genPc \in {"optimize", "done"} /\ ~Thrown(ctx)) =>
    /\ NoDanglingJumps(ctx.code)
    /\ NoDanglingJumps(optimized)
    /\ ctx.loopStack = <<>>

\* a loop was pushed and popped, a break or continue inside an if-else has
\* emitted a GOTO, and the optimizer has removed an instruction between the
\* jumps and their labels
C30_Witness ==
  /\ genPc = "done"
  /\ ~Thrown(ctx)
  /\ Len(ctx.frames) >= 1
  /\ Len(ctx.jumps) >= 2
  /\ \E i \in 1 .. Len(ctx.code) : ctx.code[i].operation = "IF_FALSE"
  /\ Len(optimized) < Len(ctx.code)
  /\ \E i \in 1 .. Len(optimized) : IsJump(optimized[i])
  /\ ctx.loopStack = <<>>
  /\ NoDanglingJumps(optimized)

=============================================================================
